---------------------------- MODULE Spec2Model ----------------------------
(***************************************************************************)
(* A model of the DCGM fake GPU exporter:                                  *)
(*   - dcgm_exporter.py: the refresh thread (update_metrics_cache), the    *)
(*     render of a document (collect_metrics, parse_dcgmi_output), the     *)
(*     cache under metrics_lock and the HTTP front end (MetricsHandler,    *)
(*     served by a single-threaded HTTPServer);                            *)
(*   - dcgm_fake_manager.py: the seven metric profiles and the injection   *)
(*     tick (DCGMFakeManager.inject_metrics).                              *)
(*                                                                         *)
(* A document is the sequence of its lines, each of them ended by one      *)
(* newline ('\n'.join(output) + '\n'); a line is a record.  The text of a  *)
(* data line is  name{gpu="..",..,UUID="..",modelName="..",pci_bus_id=".."}*)
(* value ; the labels device= and Hostname= are functions of gpu and of    *)
(* the process and are left out of the record.                             *)
(***************************************************************************)
EXTENDS Integers, Sequences, FiniteSets, TLC

VARIABLES
    mainPc,          \* __main__: "boot", "exited" (sys.exit(1)) or "serving"
    gpu_info_cache,  \* dcgm_exporter.gpu_info_cache: gpu id -> descriptor
    metrics_cache,   \* dcgm_exporter.metrics_cache: the cached document
    metrics_lock,    \* holder of metrics_lock: "free", "refresh", "handler"
    pcR,             \* refresh thread: "off", "acquire", "collect", "sleep", "dead"
    h,               \* the request being handled by the (single) server thread
    lastCall,        \* history: the external call of the last tick, and the
                     \* outcome of the tick before it
    tickDoc,         \* history: value collect_metrics returned in the last tick
    profiles,        \* DCGMFakeManager.profiles: index -> profile object
    gpu_ids,         \* the device ids the host engine reports
    ipos,            \* inject_metrics: 0 between ticks, else place in the loop
    sample,          \* the values inject_metrics injected last
    faultLog,        \* history: per profile, the course of its last fault
    config,          \* history: the arguments of DCGMFakeManager.__init__
    srv,             \* dcgm_uds_server: where main / start_uds_server stands
    uds_path,        \* the file at UDS_PATH: [exists, owner, mode]
    socket_dir,      \* whether the directory of UDS_PATH exists
    lastUnlink,      \* history: how the last os.unlink(UDS_PATH) ended
    conns,           \* the accepted connections and their handler threads
    rawReport,       \* a call of parse_dcgmi_output taken alone: its argument
    parsed,          \* and the dict it returned
    response_text,   \* the framing of handle_client taken alone: response.text
    http_response,   \* and what is written for it
    startPc,         \* DCGMFakeManager.start: where the call stands
    hostengine,      \* the nv-hostengine process start_host_engine launched
    pid_file,        \* what the file at self.pid_file names
    polls,           \* start_host_engine: passes of the wait loop made
    updater_thread,  \* whether start_metric_updater has started the thread
    returned,        \* what start() returned: "none", "True" or "False"
    dcgmi_present    \* os.path.exists(DCGMI_PATH)

exporterVars == <<mainPc, gpu_info_cache, metrics_cache, metrics_lock, pcR,
                  h, lastCall, tickDoc>>

managerVars == <<profiles, gpu_ids, ipos, sample, faultLog, config>>

udsVars == <<srv, uds_path, socket_dir, lastUnlink, conns>>

parseVars == <<rawReport, parsed>>

frameVars == <<response_text, http_response>>

startVars == <<startPc, hostengine, pid_file, polls, updater_thread,
               returned>>

-----------------------------------------------------------------------------
(* Bounds of the model *)

\* rows of one raw report of dcgmi dmon
MaxRows == 2
\* largest device id the raw report names
MaxGpu == 2

-----------------------------------------------------------------------------
(* Metric registry: FIELD_MAPPING, in the order of the dict literal *)

FIELD_MAPPING ==
    << <<150, "DCGM_FI_DEV_GPU_TEMP", "GPU temperature in Celsius">>,
       <<155, "DCGM_FI_DEV_POWER_USAGE", "Power usage in watts">>,
       <<203, "DCGM_FI_DEV_GPU_UTIL", "GPU utilization percentage">>,
       <<204, "DCGM_FI_DEV_MEM_COPY_UTIL", "Memory utilization percentage">>,
       <<100, "DCGM_FI_DEV_SM_CLOCK", "SM clock in MHz">>,
       <<101, "DCGM_FI_DEV_MEM_CLOCK", "Memory clock in MHz">>,
       <<250, "DCGM_FI_DEV_FB_TOTAL", "Total framebuffer in MB">>,
       <<251, "DCGM_FI_DEV_FB_FREE", "Free framebuffer in MB">>,
       <<252, "DCGM_FI_DEV_FB_USED", "Used framebuffer in MB">> >>

\* list(FIELD_MAPPING.keys())
field_ids == [i \in 1..Len(FIELD_MAPPING) |-> FIELD_MAPPING[i][1]]

FieldIndex(f) == CHOOSE i \in 1..Len(FIELD_MAPPING) : FIELD_MAPPING[i][1] = f

FieldName(f) == FIELD_MAPPING[FieldIndex(f)][2]

FieldHelp(f) == FIELD_MAPPING[FieldIndex(f)][3]

FieldNames == {FIELD_MAPPING[i][2] : i \in 1..Len(FIELD_MAPPING)}

-----------------------------------------------------------------------------
(* Lines and documents *)

Line(kind, name, text, gpu, value, info) ==
    [kind |-> kind, name |-> name, text |-> text, gpu |-> gpu,
     value |-> value, info |-> info]

NoInfo == [modelName |-> "", UUID |-> "", pci_bus_id |-> ""]

UnknownInfo ==
    [modelName |-> "Unknown", UUID |-> "Unknown", pci_bus_id |-> "Unknown"]

HelpLine(name, help) == Line("HELP", name, help, -1, 0, NoInfo)

TypeLine(name) == Line("TYPE", name, "gauge", -1, 0, NoInfo)

DataLine(name, gpu, value, info) == Line("DATA", name, "", gpu, value, info)

\* "# Error: <msg>\n"
ErrorDoc(msg) == << Line("ERROR", "", msg, -1, 0, NoInfo) >>

\* b'OK\n'
HealthBody == << Line("TEXT", "", "OK", -1, 0, NoInfo) >>

\* the page send_error writes for an unsupported method
ErrorPage == << Line("TEXT", "", "Unsupported method", -1, 0, NoInfo) >>

\* metrics_cache = ""
EmptyDoc == << >>

-----------------------------------------------------------------------------
(* The raw report of `dcgmi dmon`: a sequence of text lines.  A line is    *)
(* [head, id, vals]: head is "GPU" for a line that starts with 'GPU ',     *)
(* id is parts[1] (-1 when the line has no second part), vals is parts[2:].*)
(* A value token is a number, the text N/A, or text float() rejects.       *)

Num(n) == [kind |-> "num", val |-> n]

NA == [kind |-> "na", val |-> 0]

Junk == [kind |-> "junk", val |-> 0]

\* a full row of nine numbers, distinct per column and per device
FullRow(g) == [i \in 1..9 |-> Num(10 * i + g)]

\* the same row with N/A in column 1 and unparsable text in column 3
HoledRow(g) ==
    [i \in 1..9 |-> IF i = 1 THEN NA ELSE IF i = 3 THEN Junk ELSE Num(10 * i + g)]

\* the lines a raw report is made of: a heading, a row without values, a
\* row with holes, and for every device a full row
ReportLines ==
    {[head |-> "#Entity", id |-> -1, vals |-> << >>],
     [head |-> "GPU", id |-> 1, vals |-> << >>],
     [head |-> "GPU", id |-> 1, vals |-> HoledRow(1)]}
    \cup {[head |-> "GPU", id |-> g, vals |-> FullRow(g)] : g \in 0..MaxGpu}

SeqsUpTo(S, n) == UNION {[1..k -> S] : k \in 0..n}

Reports == SeqsUpTo(ReportLines, MaxRows)

\* what subprocess.run can do: return exit status 0, return another exit
\* status, raise TimeoutExpired, raise another exception
Outcomes == {"ok", "nonzero", "timeout", "exception"}

-----------------------------------------------------------------------------
(* parse_dcgmi_output.  The dict metrics is a sequence of entries          *)
(* [gpu, fields] in insertion order; fields is a sequence of [id, value]   *)
(* in insertion order.                                                     *)

HasGpu(metrics, g) == \E i \in 1..Len(metrics) : metrics[i].gpu = g

\* metrics[gpu_id][field_id] = float(val)
SetField(fields, f, v) ==
    IF \E i \in 1..Len(fields) : fields[i].id = f
    THEN [i \in 1..Len(fields) |->
            IF fields[i].id = f THEN [id |-> f, value |-> v] ELSE fields[i]]
    ELSE Append(fields, [id |-> f, value |-> v])

\* a parser that stores the numbers of a row in the first columns
RECURSIVE ParseValuesPacked(_, _, _)
ParseValuesPacked(fields, values, idx) ==
    IF idx > Len(values) THEN fields
    ELSE IF values[idx].kind = "num" /\ Len(fields) < Len(field_ids)
         THEN ParseValuesPacked(
                  Append(fields, [id |-> field_ids[Len(fields) + 1],
                                  value |-> values[idx].val]),
                  values, idx + 1)
         ELSE ParseValuesPacked(fields, values, idx + 1)

\* for idx, val in enumerate(values): ...
RECURSIVE ParseValues(_, _, _)
ParseValues(fields, values, idx) ==
    IF idx > Len(values) THEN fields
    ELSE IF idx <= Len(field_ids) /\ values[idx].kind = "num"
         THEN ParseValues(SetField(fields, field_ids[idx], values[idx].val),
                          values, idx + 1)
         ELSE ParseValues(fields, values, idx + 1)

\* a parser without the line `if gpu_id == '0': continue`
SkipsNothing(g) == FALSE

\* the reserved device id the parser skips: if gpu_id == '0': continue
SkippedGpu(g) == g = 0

ParseLine(metrics, line) ==
    IF line.head # "GPU" \/ line.id = -1 \/ SkippedGpu(line.id) THEN metrics
    ELSE LET m1 == IF HasGpu(metrics, line.id) THEN metrics
                   ELSE Append(metrics, [gpu |-> line.id, fields |-> << >>])
         IN  [i \in 1..Len(m1) |->
                IF m1[i].gpu = line.id
                THEN [gpu |-> line.id,
                      fields |-> ParseValues(m1[i].fields, line.vals, 1)]
                ELSE m1[i]]

RECURSIVE ParseLines(_, _, _)
ParseLines(metrics, output, k) ==
    IF k > Len(output) THEN metrics
    ELSE ParseLines(ParseLine(metrics, output[k]), output, k + 1)

parse_dcgmi_output(output) == ParseLines(<< >>, output, 1)

-----------------------------------------------------------------------------
(* collect_metrics *)

\* the place of a metric name in the order of Python's string comparison
NameRank(name) ==
    CASE name = "DCGM_FI_DEV_FB_FREE" -> 1
      [] name = "DCGM_FI_DEV_FB_TOTAL" -> 2
      [] name = "DCGM_FI_DEV_FB_USED" -> 3
      [] name = "DCGM_FI_DEV_GPU_TEMP" -> 4
      [] name = "DCGM_FI_DEV_GPU_UTIL" -> 5
      [] name = "DCGM_FI_DEV_MEM_CLOCK" -> 6
      [] name = "DCGM_FI_DEV_MEM_COPY_UTIL" -> 7
      [] name = "DCGM_FI_DEV_POWER_USAGE" -> 8
      [] name = "DCGM_FI_DEV_SM_CLOCK" -> 9

\* the place of the text gpu="<g>" in that order, for g < 100:
\* "1" < "10" < "19" < "2"
GpuRank(g) == IF g < 10 THEN 100 * g ELSE 100 * (g \div 10) + (g % 10) + 1

\* the sort key of a data line: two data lines of one document differ in
\* name or gpu, and the text of a line starts with the name, then the gpu
LineKey(l) == 1000 * NameRank(l.name) + GpuRank(l.gpu)

\* keyed is sorted by key; the pair kx goes before the first greater key
RECURSIVE Insert(_, _)
Insert(keyed, kx) ==
    IF keyed = << >> THEN << kx >>
    ELSE IF kx[1] < Head(keyed)[1] THEN << kx >> \o keyed
         ELSE << Head(keyed) >> \o Insert(Tail(keyed), kx)

RECURSIVE SortLines(_, _)
SortLines(lines, k) ==
    IF k > Len(lines) THEN << >>
    ELSE Insert(SortLines(lines, k + 1), << LineKey(lines[k]), lines[k] >>)

\* the lines as they were appended
Unsorted(lines) == lines

\* sorted(lines)
Sorted(lines) ==
    LET keyed == SortLines(lines, 1) IN [i \in 1..Len(keyed) |-> keyed[i][2]]

\* info = gpu_info.get(gpu_id, {}); info.get(.., 'Unknown')
InfoOf(gpu_info, g) ==
    IF g \in DOMAIN gpu_info THEN gpu_info[g] ELSE UnknownInfo

\* for field_id, value in fields.items(): lines.append(...)
FieldLines(entry, gpu_info) ==
    [i \in 1..Len(entry.fields) |->
        DataLine(FieldName(entry.fields[i].id), entry.gpu,
                 entry.fields[i].value, InfoOf(gpu_info, entry.gpu))]

RECURSIVE DataLines(_, _, _)
DataLines(gpu_metrics, gpu_info, k) ==
    IF k > Len(gpu_metrics) THEN << >>
    ELSE FieldLines(gpu_metrics[k], gpu_info)
         \o DataLines(gpu_metrics, gpu_info, k + 1)

\* for field_id, (name, help_text) in FIELD_MAPPING.items(): output.append(..)
RECURSIVE HeaderBlock(_)
HeaderBlock(k) ==
    IF k > Len(FIELD_MAPPING) THEN << >>
    ELSE << HelpLine(FIELD_MAPPING[k][2], FIELD_MAPPING[k][3]),
            TypeLine(FIELD_MAPPING[k][2]) >> \o HeaderBlock(k + 1)

\* a render that writes the header block only when some device reports
RenderHeaderIfData(gpu_metrics, gpu_info) ==
    IF gpu_metrics = << >> THEN << >>
    ELSE HeaderBlock(1) \o Sorted(DataLines(gpu_metrics, gpu_info, 1))

\* output = header lines; output.extend(sorted(lines))
Render(gpu_metrics, gpu_info) ==
    HeaderBlock(1) \o Sorted(DataLines(gpu_metrics, gpu_info, 1))

\* a collector that returns the empty string when the external call does
\* not succeed
EmptyOnError(outcome) == EmptyDoc

\* the document a tick returns when the external call does not succeed
ErrorMarker(outcome) ==
    CASE outcome = "timeout" -> ErrorDoc("dcgmi timeout")
      [] outcome = "nonzero" -> ErrorDoc("dcgmi command failed")
      [] OTHER -> ErrorDoc("collection failed")

collect_metrics(outcome, output, gpu_info) ==
    IF outcome = "ok"
    THEN Render(parse_dcgmi_output(output), gpu_info)
    ELSE ErrorMarker(outcome)

-----------------------------------------------------------------------------
(* __main__ *)

GpuModel(g) ==
    CASE g = 1 -> "Tesla V100-SXM2-16GB"
      [] g = 2 -> "Tesla V100-SXM2-32GB"
      [] OTHER -> "A100-SXM4-40GB"

GpuUuid(g) ==
    CASE g = 1 -> "GPU-00000001-fake-dcgm-0001-000400000001"
      [] g = 2 -> "GPU-00000002-fake-dcgm-0002-000400000002"
      [] OTHER -> "GPU-00000003-fake-dcgm-0003-000400000003"

GpuPci(g) ==
    CASE g = 1 -> "00000000:01:00.0"
      [] g = 2 -> "00000000:02:00.0"
      [] OTHER -> "00000000:03:00.0"

Descriptor(g) ==
    [modelName |-> GpuModel(g), UUID |-> GpuUuid(g), pci_bus_id |-> GpuPci(g)]

\* what get_gpu_info can return: descriptors of devices 1..n, never of 0
GpuInfos == {[g \in 1..n |-> Descriptor(g)] : n \in {1, MaxGpu}}

\* the raw report has a row for device g
HasRowFor(output, g) ==
    \E k \in 1..Len(output) : output[k].head = "GPU" /\ output[k].id = g

\* every call of collect_metrics the bounds allow: the descriptor cache it
\* reads, what the external call does, whether its raw report has a row for
\* device 0, and the document collect_metrics returns
Calls ==
    {[info |-> i, outcome |-> "ok", zeroRow |-> HasRowFor(o, 0),
      doc |-> collect_metrics("ok", o, i)] : i \in GpuInfos, o \in Reports}
    \cup {[info |-> i, outcome |-> c, zeroRow |-> FALSE,
           doc |-> collect_metrics(c, << >>, i)] :
            i \in GpuInfos, c \in Outcomes \ {"ok"}}

\* a full row with one value that is not a number: N/A or unparsable text
RowWithHole(g, hole, token) ==
    [i \in 1..9 |-> IF i = hole THEN token ELSE Num(10 * i + g)]

\* the columns of the model where a row has its hole: the first, one in
\* the middle, the last
HoleColumns == {1, 5, 9}

\* the lines of the reports parse_dcgmi_output is called with alone
ParseLinesSet ==
    ReportLines
    \cup {[head |-> "GPU", id |-> g, vals |-> RowWithHole(g, c, t)] :
            g \in 0..MaxGpu, c \in HoleColumns, t \in {NA, Junk}}

ParseReports == SeqsUpTo(ParseLinesSet, MaxRows)

\* metrics = parse_dcgmi_output(result.stdout), one call, on any report of
\* the model
ParseCall ==
    /\ rawReport = << >>
    /\ \E output \in ParseReports :
          /\ rawReport' = output
          /\ parsed' = parse_dcgmi_output(output)
    /\ UNCHANGED <<exporterVars, managerVars, udsVars, frameVars, startVars,
                   dcgmi_present>>

\* no success response has been framed
NoFrame == [content_length |-> -1, body |-> << >>]

NoRequest ==
    [pc |-> "idle", method |-> "", path |-> "", status |-> 0, ctype |-> "",
     response |-> EmptyDoc, body |-> EmptyDoc, fresh |-> FALSE]

\* the exporter process at its first line; present is whether the file at
\* DCGMI_PATH exists
ExporterBoot(present) ==
    /\ mainPc = "boot"
    /\ gpu_info_cache = << >>
    /\ metrics_cache = EmptyDoc
    /\ metrics_lock = "free"
    /\ pcR = "off"
    /\ h = NoRequest
    /\ lastCall = [outcome |-> "none", zeroRow |-> FALSE, before |-> "none"]
    /\ tickDoc = EmptyDoc
    /\ rawReport = << >>
    /\ parsed = << >>
    /\ response_text = << >>
    /\ http_response = NoFrame
    /\ dcgmi_present = present

\* the exporter on a host that has dcgmi
ExporterInit == ExporterBoot(TRUE)

\* an exporter that starts the refresh thread before it looks for dcgmi
StartupFatalLate ==
    /\ mainPc = "boot"
    /\ ~dcgmi_present
    /\ mainPc' = "exited"
    /\ pcR' = "acquire"
    /\ UNCHANGED <<gpu_info_cache, metrics_cache, metrics_lock,
                   h, lastCall, tickDoc,
                   managerVars, udsVars, parseVars, frameVars, startVars,
                   dcgmi_present>>

\* if not os.path.exists(DCGMI_PATH): sys.exit(1)
StartupFatal ==
    /\ mainPc = "boot"
    /\ ~dcgmi_present
    /\ mainPc' = "exited"
    /\ UNCHANGED <<gpu_info_cache, metrics_cache, metrics_lock, pcR,
                   h, lastCall, tickDoc,
                   managerVars, udsVars, parseVars, frameVars, startVars,
                   dcgmi_present>>

\* gpu_info_cache.update(get_gpu_info()); the result of the test call of
\* collect_metrics is printed and dropped; the refresh thread is started and
\* the server serves
Startup(info) ==
    /\ mainPc = "boot"
    /\ dcgmi_present
    /\ gpu_info_cache' = info
    /\ mainPc' = "serving"
    /\ pcR' = "acquire"
    /\ UNCHANGED <<metrics_cache, metrics_lock, h, lastCall,
                   tickDoc,
                   managerVars, udsVars, parseVars, frameVars, startVars,
                   dcgmi_present>>

-----------------------------------------------------------------------------
(* update_metrics_cache: the refresh thread *)

\* with metrics_lock: (entered)
TickAcquire ==
    /\ pcR = "acquire"
    /\ metrics_lock = "free"
    /\ metrics_lock' = "refresh"
    /\ pcR' = "collect"
    /\ UNCHANGED <<mainPc, gpu_info_cache, metrics_cache, h,
                   lastCall, tickDoc,
                   managerVars, udsVars, parseVars, frameVars, startVars,
                   dcgmi_present>>

\* a store that writes the new document after the old one
StoreAppended(old, new) == old \o new

\* a store that keeps the last document when the new one is an error marker
KeepLastGood(old, new) ==
    IF Len(new) = 1 /\ new[1].kind = "ERROR" THEN old ELSE new

\* metrics_cache = <document>: the name is bound to the new string
StoreDocument(old, new) == new

\* a loop that ends with the first tick that fails
StopOnFailure(outcome) == IF outcome = "ok" THEN "sleep" ELSE "dead"

\* where the thread goes after a tick: collect_metrics catches every
\* exception, and the loop catches what is left, so it always sleeps
AfterTick(outcome) == "sleep"

\* a tick that fetches the descriptors again before it collects
TickCollectRefetch(call) ==
    /\ pcR = "collect"
    /\ gpu_info_cache' = call.info
    /\ metrics_cache' = StoreDocument(metrics_cache, call.doc)
    /\ tickDoc' = call.doc
    /\ lastCall' = [outcome |-> call.outcome, zeroRow |-> call.zeroRow,
                    before |-> lastCall.outcome]
    /\ metrics_lock' = "free"
    /\ pcR' = AfterTick(call.outcome)
    /\ h' = [h EXCEPT !.fresh = FALSE]
    /\ UNCHANGED <<mainPc, managerVars, udsVars, parseVars, frameVars, startVars,
                   dcgmi_present>>

\* a tick that stores the document and keeps metrics_lock
TickCollectKeepsLock(call) ==
    /\ pcR = "collect"
    /\ call.info = gpu_info_cache
    /\ metrics_cache' = StoreDocument(metrics_cache, call.doc)
    /\ tickDoc' = call.doc
    /\ lastCall' = [outcome |-> call.outcome, zeroRow |-> call.zeroRow,
                    before |-> lastCall.outcome]
    /\ pcR' = AfterTick(call.outcome)
    /\ h' = [h EXCEPT !.fresh = FALSE]
    /\ UNCHANGED <<mainPc, gpu_info_cache, metrics_lock,
                   managerVars, udsVars, parseVars, frameVars, startVars,
                   dcgmi_present>>

\* metrics_cache = collect_metrics(); the lock is released
TickCollect(call) ==
    /\ pcR = "collect"
    /\ call.info = gpu_info_cache
    /\ metrics_cache' = StoreDocument(metrics_cache, call.doc)
    /\ tickDoc' = call.doc
    /\ lastCall' = [outcome |-> call.outcome, zeroRow |-> call.zeroRow,
                    before |-> lastCall.outcome]
    /\ metrics_lock' = "free"
    /\ pcR' = AfterTick(call.outcome)
    /\ h' = [h EXCEPT !.fresh = FALSE]
    /\ UNCHANGED <<mainPc, gpu_info_cache,
                   managerVars, udsVars, parseVars, frameVars, startVars,
                   dcgmi_present>>

\* time.sleep(5)
TickSleep ==
    /\ pcR = "sleep"
    /\ pcR' = "acquire"
    /\ UNCHANGED <<mainPc, gpu_info_cache, metrics_cache, metrics_lock,
                   h, lastCall, tickDoc,
                   managerVars, udsVars, parseVars, frameVars, startVars,
                   dcgmi_present>>

-----------------------------------------------------------------------------
(* The network front end: HTTPServer(('0.0.0.0', port), MetricsHandler).   *)
(* HTTPServer handles one request at a time.                               *)

Methods == {"GET", "POST", "HEAD"}

Paths == {"/metrics", "/health", "/nope"}

\* serve_forever takes the next connection, with its request line, once the
\* last request is done
Accept(m, p) ==
    /\ mainPc = "serving"
    /\ h.pc \in {"idle", "done"}
    /\ h' = [NoRequest EXCEPT !.pc = "handle", !.method = m, !.path = p]
    /\ UNCHANGED <<mainPc, gpu_info_cache, metrics_cache, metrics_lock, pcR,
                   lastCall, tickDoc,
                   managerVars, udsVars, parseVars, frameVars, startVars,
                   dcgmi_present>>

\* a handler that answers another method as it answers an unknown path
OtherMethodNotFound ==
    /\ h.pc = "handle"
    /\ h.method # "GET"
    /\ h' = [h EXCEPT !.pc = "done", !.status = 404, !.body = EmptyDoc]
    /\ UNCHANGED <<mainPc, gpu_info_cache, metrics_cache, metrics_lock, pcR,
                   lastCall, tickDoc, managerVars, udsVars, parseVars, frameVars, startVars,
                   dcgmi_present>>

\* MetricsHandler defines do_GET only: for another method the base class
\* answers send_error(501), whose page is left out for HEAD
HandleOtherMethod ==
    /\ h.pc = "handle"
    /\ h.method # "GET"
    /\ h' = [h EXCEPT !.pc = "done", !.status = 501,
                      !.ctype = "text/html;charset=utf-8",
                      !.body = IF h.method = "HEAD" THEN EmptyDoc ELSE ErrorPage]
    /\ UNCHANGED <<mainPc, gpu_info_cache, metrics_cache, metrics_lock, pcR,
                   lastCall, tickDoc,
                   managerVars, udsVars, parseVars, frameVars, startVars,
                   dcgmi_present>>

\* a handler that reads the cache without waiting for the lock
DoGetMetricsUnlocked ==
    /\ h.pc = "handle"
    /\ h.method = "GET"
    /\ h.path = "/metrics"
    /\ metrics_lock' = "handler"
    /\ h' = [h EXCEPT !.pc = "locked"]
    /\ UNCHANGED <<mainPc, gpu_info_cache, metrics_cache, pcR,
                   lastCall, tickDoc,
                   managerVars, udsVars, parseVars, frameVars, startVars,
                   dcgmi_present>>

\* do_GET, path '/metrics': with metrics_lock: (entered)
DoGetMetricsAcquire ==
    /\ h.pc = "handle"
    /\ h.method = "GET"
    /\ h.path = "/metrics"
    /\ metrics_lock = "free"
    /\ metrics_lock' = "handler"
    /\ h' = [h EXCEPT !.pc = "locked"]
    /\ UNCHANGED <<mainPc, gpu_info_cache, metrics_cache, pcR,
                   lastCall, tickDoc,
                   managerVars, udsVars, parseVars, frameVars, startVars,
                   dcgmi_present>>

\* a handler that empties the cache as it reads it
CopyAndClear ==
    /\ h.pc = "locked"
    /\ h' = [h EXCEPT !.pc = "copied", !.response = metrics_cache,
                      !.fresh = TRUE]
    /\ metrics_cache' = EmptyDoc
    /\ metrics_lock' = "free"
    /\ UNCHANGED <<mainPc, gpu_info_cache, pcR, lastCall, tickDoc,
                   managerVars, udsVars, parseVars, frameVars, startVars,
                   dcgmi_present>>

\* response = metrics_cache; the lock is released
DoGetMetricsCopy ==
    /\ h.pc = "locked"
    /\ h' = [h EXCEPT !.pc = "copied", !.response = metrics_cache,
                      !.fresh = TRUE]
    /\ metrics_lock' = "free"
    /\ UNCHANGED <<mainPc, gpu_info_cache, metrics_cache, pcR,
                   lastCall, tickDoc,
                   managerVars, udsVars, parseVars, frameVars, startVars,
                   dcgmi_present>>

\* send_response(200); Content-Type; wfile.write(response.encode())
DoGetMetricsSend ==
    /\ h.pc = "copied"
    /\ h' = [h EXCEPT !.pc = "done", !.status = 200,
                      !.ctype = "text/plain; charset=utf-8",
                      !.body = h.response]
    /\ UNCHANGED <<mainPc, gpu_info_cache, metrics_cache, metrics_lock, pcR,
                   lastCall, tickDoc,
                   managerVars, udsVars, parseVars, frameVars, startVars,
                   dcgmi_present>>

\* do_GET, path '/health'
DoGetHealth ==
    /\ h.pc = "handle"
    /\ h.method = "GET"
    /\ h.path = "/health"
    /\ h' = [h EXCEPT !.pc = "done", !.status = 200, !.body = HealthBody]
    /\ UNCHANGED <<mainPc, gpu_info_cache, metrics_cache, metrics_lock, pcR,
                   lastCall, tickDoc,
                   managerVars, udsVars, parseVars, frameVars, startVars,
                   dcgmi_present>>

\* a handler that answers an unknown path as it answers '/health'
NotFoundAsHealth ==
    /\ h.pc = "handle"
    /\ h.method = "GET"
    /\ h.path \notin {"/metrics", "/health"}
    /\ h' = [h EXCEPT !.pc = "done", !.status = 200, !.body = HealthBody]
    /\ UNCHANGED <<mainPc, gpu_info_cache, metrics_cache, metrics_lock, pcR,
                   lastCall, tickDoc, managerVars, udsVars, parseVars, frameVars, startVars,
                   dcgmi_present>>

\* do_GET, any other path
DoGetNotFound ==
    /\ h.pc = "handle"
    /\ h.method = "GET"
    /\ h.path \notin {"/metrics", "/health"}
    /\ h' = [h EXCEPT !.pc = "done", !.status = 404, !.body = EmptyDoc]
    /\ UNCHANGED <<mainPc, gpu_info_cache, metrics_cache, metrics_lock, pcR,
                   lastCall, tickDoc,
                   managerVars, udsVars, parseVars, frameVars, startVars,
                   dcgmi_present>>

-----------------------------------------------------------------------------
(* dcgm_fake_manager.py: the metric profiles.                              *)
(*                                                                         *)
(* A profile object is [name, iteration, is_faulting, fault_countdown,     *)
(* time_offset].  apply returns the profile after the call and the         *)
(* metrics.  The randomness of one call of apply is a draw                 *)
(* [level, coin, countdown, choice]: every random.randint(a, b) of the     *)
(* metrics returns the point of a..b at the same level 0..DrawSteps,       *)
(* random.random() < p is coin, the countdown of a fault is the point of   *)
(* 3..10 at the level countdown and random.choice picks the element        *)
(* choice.                                                                 *)

\* steps between the ends of the range of a random.randint
DrawSteps == 2
\* calls of apply on one profile object in a run
MaxIteration == 11
\* calls of apply on one profile object in a long run
LongRun == 102

\* create_fake_gpus: MAX_FAKE_GPUS
MAX_FAKE_GPUS == 16

Min(a, b) == IF a < b THEN a ELSE b

Max(a, b) == IF a > b THEN a ELSE b

\* a clamp without the upper end
ClampBelow(value, min_val, max_val) == Max(min_val, value)

\* MetricProfile._clamp
Clamp(value, min_val, max_val) == Max(min_val, Min(max_val, value))

\* int(n / d): Python's int() rounds towards zero
TruncDiv(n, d) == IF n >= 0 THEN n \div d ELSE -((-n) \div d)

\* random.randint(a, b) at a level
RandAt(a, b, level) == a + ((b - a) * level) \div DrawSteps

\* random.randint(a, b) of the metrics
RandInt(a, b, d) == RandAt(a, b, d.level)

Levels == 0..DrawSteps

Draw(level, coin, countdown, choice) ==
    [level |-> level, coin |-> coin, countdown |-> countdown,
     choice |-> choice]

Metrics(temp, power, gpu_util, mem_util, sm_clock, mem_clock, fb_used) ==
    [temp |-> temp, power |-> power, gpu_util |-> gpu_util,
     mem_util |-> mem_util, sm_clock |-> sm_clock, mem_clock |-> mem_clock,
     fb_used |-> fb_used]

Applied(p, m) == [profile |-> p, metrics |-> m]

\* StaticProfile.apply
StaticApply(p, gpu_id, d) ==
    Applied(p,
        Metrics(Clamp(50 + (gpu_id - 1) * 5 + RandInt(0, 5, d), 45, 85),
                Clamp(150 + (gpu_id - 1) * 20 + RandInt(-10, 10, d), 100, 300),
                Clamp(30 + (gpu_id - 1) * 10 + RandInt(-5, 5, d), 0, 100),
                Clamp(40 + (gpu_id - 1) * 5 + RandInt(-5, 5, d), 0, 100),
                1400 + RandInt(-50, 100, d),
                877 + RandInt(-20, 0, d),
                Clamp(4096 + (gpu_id - 1) * 1024 + RandInt(-512, 512, d),
                      2048, 14336)))

\* StableProfile.apply
StableApply(p, gpu_id, d) ==
    Applied(p,
        Metrics(Clamp(55 + (gpu_id - 1) * 3 + RandInt(-1, 1, d), 45, 90),
                Clamp(180 + (gpu_id - 1) * 15 + RandInt(-3, 3, d), 100, 350),
                Clamp(50 + (gpu_id - 1) * 5 + RandInt(-2, 2, d), 0, 100),
                Clamp(45 + (gpu_id - 1) * 3 + RandInt(-2, 2, d), 0, 100),
                1400 + RandInt(-10, 10, d),
                877 + RandInt(-5, 5, d),
                Clamp(6144 + (gpu_id - 1) * 512 + RandInt(-100, 100, d),
                      2048, 14336)))

\* SpikeProfile.apply; d.coin is random.random() < 0.20
SpikeApply(p, gpu_id, d) ==
    LET is_spiking == d.coin
        temp == IF is_spiking THEN 75 + RandInt(0, 15, d)
                ELSE 50 + (gpu_id - 1) * 4 + RandInt(-5, 5, d)
        power == IF is_spiking THEN 280 + RandInt(0, 50, d)
                 ELSE 150 + (gpu_id - 1) * 15 + RandInt(-10, 10, d)
        gpu_util == IF is_spiking THEN 90 + RandInt(0, 10, d)
                    ELSE 25 + (gpu_id - 1) * 8 + RandInt(-10, 10, d)
        mem_util == IF is_spiking THEN 85 + RandInt(0, 15, d)
                    ELSE 30 + (gpu_id - 1) * 5 + RandInt(-10, 10, d)
        used_mem == IF is_spiking THEN 12288 + RandInt(0, 2048, d)
                    ELSE 4096 + (gpu_id - 1) * 1024 + RandInt(-1024, 1024, d)
    IN  Applied([p EXCEPT !.iteration = @ + 1],
            Metrics(Clamp(temp, 45, 95),
                    Clamp(power, 100, 350),
                    Clamp(gpu_util, 0, 100),
                    Clamp(mem_util, 0, 100),
                    IF is_spiking THEN 1400 + RandInt(-100, 200, d)
                    ELSE 1400 + RandInt(-50, 50, d),
                    877 + RandInt(-20, 20, d),
                    Clamp(used_mem, 2048, 14336)))

\* 1000 * sin(2 * pi * k / 60) for a quarter of the period, rounded
QuarterSine == <<0, 105, 208, 309, 407, 500, 588, 669, 743, 809, 866, 914,
                 951, 978, 995, 1000>>

\* 1000 * math.sin(2 * pi * k / 60), k in 0..59
SinMilli(k) ==
    IF k <= 15 THEN QuarterSine[k + 1]
    ELSE IF k <= 30 THEN QuarterSine[30 - k + 1]
    ELSE IF k <= 45 THEN -QuarterSine[k - 30 + 1]
    ELSE -QuarterSine[60 - k + 1]

\* a phase that advances by a sixtieth of a period every second call
WavePhaseSlow(iteration, time_offset, gpu_id) ==
    (iteration \div 2 + time_offset + (gpu_id * 4775) \div 1000) % 60

\* the phase of WaveProfile.apply in sixtieths of a period, rounded down:
\* (iteration / 60) * 2 pi + time_offset + gpu_id * 0.5, where time_offset is
\* held in sixtieths of a period and 0.5 rad is 4.775 sixtieths
WavePhase(iteration, time_offset, gpu_id) ==
    (iteration + time_offset + (gpu_id * 4775) \div 1000) % 60

\* WaveProfile.apply; wave is held in thousandths
WaveApply(p, gpu_id, d) ==
    LET iteration == p.iteration + 1
        wave == SinMilli(WavePhase(iteration, p.time_offset, gpu_id))
    IN  Applied([p EXCEPT !.iteration = iteration],
            Metrics(TruncDiv(Clamp(60000 + wave * 20, 45000, 90000), 1000),
                    TruncDiv(Clamp(200000 + wave * 80, 100000, 350000), 1000),
                    TruncDiv(Clamp(50000 + wave * 40, 0, 100000), 1000),
                    TruncDiv(Clamp(50000 + wave * 32, 0, 100000), 1000),
                    1400 + TruncDiv(wave * 200, 1000),
                    877 + TruncDiv(wave * 100, 1000),
                    TruncDiv(Clamp(8192000 + wave * 4096, 2048000, 14336000),
                             1000)))

\* a degradation that is not capped
DegradationUncapped(iteration) == iteration

\* degradation_factor = min(self.iteration / 200.0, 0.5), in 200ths
DegradationFactor(iteration) == Min(iteration, 100)

\* the metrics of DegradingProfile.apply without their random.randint:
\* temp, power, gpu_util and mem_util in 200ths, the clocks after int()
DegradingBase(degradation) ==
    [temp |-> 50 * 200 + degradation * 30,
     power |-> 150 * 200 + degradation * 100,
     gpu_util |-> 70 * 200 - degradation * 30,
     mem_util |-> 60 * 200 - degradation * 20,
     sm_clock |-> TruncDiv(1400 * 200 - degradation * 300, 200),
     mem_clock |-> TruncDiv(877 * 200 - degradation * 100, 200)]

\* DegradingProfile.apply
DegradingApply(p, gpu_id, d) ==
    LET iteration == p.iteration + 1
        base == DegradingBase(DegradationFactor(iteration))
    IN  Applied([p EXCEPT !.iteration = iteration],
            Metrics(TruncDiv(Clamp(base.temp + 200 * RandInt(-3, 3, d),
                                   45 * 200, 95 * 200), 200),
                    TruncDiv(Clamp(base.power + 200 * RandInt(-10, 10, d),
                                   100 * 200, 350 * 200), 200),
                    TruncDiv(Clamp(base.gpu_util + 200 * RandInt(-5, 5, d),
                                   0, 100 * 200), 200),
                    TruncDiv(Clamp(base.mem_util + 200 * RandInt(-5, 5, d),
                                   0, 100 * 200), 200),
                    base.sm_clock + RandInt(-50, 50, d),
                    base.mem_clock + RandInt(-20, 20, d),
                    Clamp(6144 + RandInt(-1024, 1024, d), 2048, 14336)))

\* erratic power with a value of the steady baseline in it
ErraticPowerNearBaseline == <<50, 100, 200, 350>>

\* random.choice([50, 100, 300, 350])
ErraticPower == <<50, 100, 300, 350>>

\* a faulty profile that starts to count down in the call after the entry
FaultyStepCountsLater(p, d) ==
    LET enter == ~p.is_faulting /\ d.coin
        countdown2 == IF enter THEN RandAt(3, 10, d.countdown)
                      ELSE IF p.is_faulting THEN p.fault_countdown - 1
                      ELSE p.fault_countdown
        faulting2 == IF enter THEN TRUE
                     ELSE IF p.is_faulting /\ countdown2 <= 0 THEN FALSE
                     ELSE p.is_faulting
    IN  [p EXCEPT !.iteration = @ + 1, !.is_faulting = faulting2,
                  !.fault_countdown = countdown2]

\* a faulty profile that makes its entry check in every call
FaultyStepRedraws(p, d) ==
    LET enter == d.coin
        faulting1 == IF enter THEN TRUE ELSE p.is_faulting
        countdown1 == IF enter THEN RandAt(3, 10, d.countdown)
                      ELSE p.fault_countdown
        countdown2 == IF faulting1 THEN countdown1 - 1 ELSE countdown1
        faulting2 == IF faulting1 /\ countdown2 <= 0 THEN FALSE ELSE faulting1
    IN  [p EXCEPT !.iteration = @ + 1, !.is_faulting = faulting2,
                  !.fault_countdown = countdown2]

\* FaultyProfile.apply, the state machine: d.coin is random.random() < 0.10,
\* d.countdown the level of random.randint(3, 10)
FaultyStep(p, d) ==
    LET enter == ~p.is_faulting /\ d.coin
        faulting1 == IF enter THEN TRUE ELSE p.is_faulting
        countdown1 == IF enter THEN RandAt(3, 10, d.countdown)
                      ELSE p.fault_countdown
        countdown2 == IF faulting1 THEN countdown1 - 1 ELSE countdown1
        faulting2 == IF faulting1 /\ countdown2 <= 0 THEN FALSE ELSE faulting1
    IN  [p EXCEPT !.iteration = @ + 1, !.is_faulting = faulting2,
                  !.fault_countdown = countdown2]

\* FaultyProfile.apply
FaultyApply(p, gpu_id, d) ==
    LET q == FaultyStep(p, d)
        temp == IF q.is_faulting THEN 85 + RandInt(0, 10, d)
                ELSE 55 + (gpu_id - 1) * 4 + RandInt(-5, 5, d)
        power == IF q.is_faulting THEN ErraticPower[d.choice]
                 ELSE 170 + (gpu_id - 1) * 15 + RandInt(-10, 10, d)
        gpu_util == IF q.is_faulting THEN RandInt(0, 20, d)
                    ELSE 60 + (gpu_id - 1) * 5 + RandInt(-10, 10, d)
        mem_util == IF q.is_faulting THEN RandInt(0, 25, d)
                    ELSE 55 + (gpu_id - 1) * 3 + RandInt(-10, 10, d)
        sm_clock == IF q.is_faulting THEN 800 + RandInt(-200, 200, d)
                    ELSE 1400 + RandInt(-50, 50, d)
        mem_clock == IF q.is_faulting THEN 500 + RandInt(-100, 100, d)
                     ELSE 877 + RandInt(-20, 20, d)
        used_mem == IF q.is_faulting THEN 2048 + RandInt(0, 1024, d)
                    ELSE 7168 + (gpu_id - 1) * 512 + RandInt(-512, 512, d)
    IN  Applied(q,
            Metrics(Clamp(temp, 45, 100),
                    Clamp(power, 50, 350),
                    Clamp(gpu_util, 0, 100),
                    Clamp(mem_util, 0, 100),
                    sm_clock,
                    mem_clock,
                    Clamp(used_mem, 2048, 14336)))

\* a chaos profile that draws the clocks from 0 up
ChaosApplyWide(p, gpu_id, d) ==
    Applied(p,
        Metrics(RandInt(45, 95, d),
                RandInt(100, 350, d),
                RandInt(0, 100, d),
                RandInt(0, 100, d),
                RandInt(0, 1800, d),
                RandInt(0, 1000, d),
                RandInt(2048, 14336, d)))

\* ChaosProfile.apply
ChaosApply(p, gpu_id, d) ==
    Applied(p,
        Metrics(RandInt(45, 95, d),
                RandInt(100, 350, d),
                RandInt(0, 100, d),
                RandInt(0, 100, d),
                RandInt(800, 1800, d),
                RandInt(600, 1000, d),
                RandInt(2048, 14336, d)))

\* profile.apply(gpu_id, base_values)
Apply(p, gpu_id, d) ==
    CASE p.name = "static" -> StaticApply(p, gpu_id, d)
      [] p.name = "stable" -> StableApply(p, gpu_id, d)
      [] p.name = "spike" -> SpikeApply(p, gpu_id, d)
      [] p.name = "wave" -> WaveApply(p, gpu_id, d)
      [] p.name = "degrading" -> DegradingApply(p, gpu_id, d)
      [] p.name = "faulty" -> FaultyApply(p, gpu_id, d)
      [] p.name = "chaos" -> ChaosApply(p, gpu_id, d)

\* the draws a call of apply can make, by what the call reads of them; for
\* a faulty profile that is faulting, also what random.random() < 0.10 and
\* random.randint(3, 10) would give, which the call does not ask for
Draws(p) ==
    CASE p.name = "wave" -> {Draw(0, FALSE, 0, 1)}
      [] p.name = "spike" ->
            {Draw(l, c, 0, 1) : l \in Levels, c \in BOOLEAN}
      [] p.name = "faulty" /\ p.is_faulting ->
            {Draw(l, FALSE, 0, k) : l \in Levels, k \in 1..Len(ErraticPower)}
            \cup {Draw(0, TRUE, DrawSteps, 1)}
      [] p.name = "faulty" /\ ~p.is_faulting ->
            {Draw(l, FALSE, 0, 1) : l \in Levels}
            \cup {Draw(l, TRUE, c, k) :
                    l \in Levels, c \in Levels, k \in 1..Len(ErraticPower)}
      [] OTHER -> {Draw(l, FALSE, 0, 1) : l \in Levels}

-----------------------------------------------------------------------------
(* ProfileFactory and DCGMFakeManager.__init__ *)

\* ProfileFactory.PROFILES
PROFILES == {"static", "stable", "spike", "wave", "degrading", "faulty",
             "chaos"}

\* str.lower() on the names of the model
Lower(name) ==
    CASE name = "Stable" -> "stable"
      [] name = "WAVE" -> "wave"
      [] OTHER -> name

NewProfile(name, time_offset) ==
    [name |-> name, iteration |-> 0, is_faulting |-> FALSE,
     fault_countdown |-> 0,
     time_offset |-> IF name = "wave" THEN time_offset ELSE 0]

\* ProfileFactory.create; time_offset is what random.uniform(0, 2 * math.pi)
\* returns if the class is WaveProfile
Create(profile_name, time_offset) ==
    IF Lower(profile_name) \in PROFILES
    THEN NewProfile(Lower(profile_name), time_offset)
    ELSE NewProfile("static", time_offset)

\* an assignment that starts the list at its second name
ProfileNameShifted(i, metric_profile, gpu_profiles) ==
    IF Len(gpu_profiles) > 0
    THEN gpu_profiles[(i % Len(gpu_profiles)) + 1]
    ELSE metric_profile

\* the profile name of device i in DCGMFakeManager.__init__
ProfileNameOf(i, metric_profile, gpu_profiles) ==
    IF Len(gpu_profiles) > 0
    THEN gpu_profiles[((i - 1) % Len(gpu_profiles)) + 1]
    ELSE metric_profile

\* the names a configuration can give
ConfigNames == PROFILES \cup {"Stable", "WAVE", "bogus"}

\* --gpu-profiles of the model; << >> is no list
ProfileLists ==
    {<< >>, <<"degrading", "WAVE">>, <<"Stable", "bogus", "chaos">>,
     <<"spike">>}

\* time_offset of a WaveProfile, in sixtieths of a period
OffsetSlots == {0, 15, 30, 45}

\* the ids the engine gives the fake devices of the model
DeviceIds == {1, MAX_FAKE_GPUS}

\* a run of the manager: num_gpus, metric_profile and gpu_profiles of
\* __init__, and ids, what dcgmGetAllDevices returns (device 0 of the
\* injection library and the fake devices the engine has)
Config(num_gpus, metric_profile, gpu_profiles, ids) ==
    [num_gpus |-> num_gpus, metric_profile |-> metric_profile,
     gpu_profiles |-> gpu_profiles, ids |-> ids]

ProfileConfigs ==
    {Config(MAX_FAKE_GPUS, n, << >>, <<0, g>>) :
        n \in ConfigNames, g \in DeviceIds}
    \cup {Config(k, "static", l, e) :
            k \in {1, 3}, l \in ProfileLists, e \in {<<0>>, <<0, 1, 2>>}}

\* the long runs of the model: one device with a profile that depends on
\* the number of calls made
LongRunConfigs ==
    {Config(2, n, << >>, <<0, g>>) : n \in {"degrading", "wave"}, g \in {1, 2}}

NoSample ==
    [gpu |-> -1, profile |-> "", faulting |-> FALSE, temp |-> 0, power |-> 0,
     gpu_util |-> 0, mem_util |-> 0, sm_clock |-> 0, mem_clock |-> 0,
     fb_total |-> 0, fb_used |-> 0, fb_free |-> 0]

NoFault == [drawn |-> 0, further |-> 0, exited |-> FALSE]

\* start() has not been called
NotStarted ==
    /\ startPc = "check"
    /\ hostengine = "none"
    /\ polls = 0
    /\ updater_thread = FALSE
    /\ returned = "none"

\* start() has not been called and there is no PID file
StartOff == NotStarted /\ pid_file = "none"

\* the manager is not constructed
ManagerOff ==
    /\ StartOff
    /\ profiles = << >>
    /\ gpu_ids = << >>
    /\ ipos = 0
    /\ sample = NoSample
    /\ faultLog = << >>
    /\ config = Config(0, "", << >>, << >>)

\* the fake devices of an engine list
FakeSet(ids) == {ids[k] : k \in {j \in 1..Len(ids) : ids[j] > 0}}

\* DCGMFakeManager.__init__; offsets are the time_offset draws of the
\* profiles the devices of the run use
ManagerInit(c, offsets) ==
    /\ profiles = [i \in 1..c.num_gpus |->
                     Create(ProfileNameOf(i, c.metric_profile, c.gpu_profiles),
                            IF i \in DOMAIN offsets THEN offsets[i] ELSE 0)]
    /\ gpu_ids = c.ids
    /\ ipos = 0
    /\ sample = NoSample
    /\ faultLog = [i \in 1..c.num_gpus |-> NoFault]
    /\ config = c

-----------------------------------------------------------------------------
(* DCGMFakeManager.inject_metrics *)

\* gid > 0: the ids inject_metrics keeps
IsFakeGpu(gid) == gid > 0

\* fake_gpu_ids = [gid for gid in gpu_ids if gid > 0]
FakeGpuIds(ids) == SelectSeq(ids, IsFakeGpu)

\* self.profiles.get(gpu_id, self.profiles[1]): the index of the profile
ProfileIndex(gpu_id) == IF gpu_id \in DOMAIN profiles THEN gpu_id ELSE 1

\* the course of a fault: the countdown drawn on entry, the calls of apply
\* after the entry that left the profile faulting, and whether it is over
FaultLogAfter(log, p, q, d) ==
    IF p.name # "faulty" THEN log
    ELSE IF ~p.is_faulting /\ d.coin
         THEN [drawn |-> RandAt(3, 10, d.countdown), further |-> 0, exited |-> ~q.is_faulting]
    ELSE IF p.is_faulting /\ q.is_faulting
         THEN [log EXCEPT !.further = @ + 1]
    ELSE IF p.is_faulting /\ ~q.is_faulting
         THEN [log EXCEPT !.exited = TRUE]
    ELSE log

\* a pass that injects the whole framebuffer as free
InjectedAllFree(gpu_id, q, m) ==
    [gpu |-> gpu_id, profile |-> q.name, faulting |-> q.is_faulting,
     temp |-> m.temp, power |-> m.power, gpu_util |-> m.gpu_util,
     mem_util |-> m.mem_util, sm_clock |-> m.sm_clock,
     mem_clock |-> m.mem_clock, fb_total |-> 16384, fb_used |-> m.fb_used,
     fb_free |-> 16384]

\* metrics = {k: int(v)}; inject_value for the nine fields
Injected(gpu_id, q, m) ==
    [gpu |-> gpu_id, profile |-> q.name, faulting |-> q.is_faulting,
     temp |-> m.temp, power |-> m.power, gpu_util |-> m.gpu_util,
     mem_util |-> m.mem_util, sm_clock |-> m.sm_clock,
     mem_clock |-> m.mem_clock, fb_total |-> 16384, fb_used |-> m.fb_used,
     fb_free |-> 16384 - m.fb_used]

\* the calls of apply on one profile object the run of a configuration has
IterationBound ==
    IF config \in LongRunConfigs THEN LongRun ELSE MaxIteration

\* the updater (or start) calls inject_metrics: the engine is asked for its
\* devices; with no fake device the loop has no pass
InjectBegin ==
    /\ ipos = 0
    /\ profiles # << >>
    /\ \A i \in DOMAIN profiles : profiles[i].iteration < IterationBound
    /\ ipos' = IF FakeGpuIds(gpu_ids) = << >> THEN 0 ELSE 1
    /\ UNCHANGED <<profiles, gpu_ids, sample, faultLog, config, exporterVars,
                   udsVars, parseVars, frameVars, startVars,
                   dcgmi_present>>

\* one pass of the loop over fake_gpu_ids
InjectDevice ==
    /\ ipos >= 1
    /\ LET fake == FakeGpuIds(gpu_ids)
           gpu_id == fake[ipos]
           i == ProfileIndex(gpu_id)
       IN  /\ \E d \in Draws(profiles[i]) :
                LET r == Apply(profiles[i], gpu_id, d)
                IN  /\ profiles' = [profiles EXCEPT ![i] = r.profile]
                    /\ faultLog' =
                         [faultLog EXCEPT
                            ![i] = FaultLogAfter(@, profiles[i], r.profile, d)]
                    /\ sample' = Injected(gpu_id, r.profile, r.metrics)
           /\ ipos' = IF ipos = Len(fake) THEN 0 ELSE ipos + 1
    /\ UNCHANGED <<gpu_ids, config, exporterVars, udsVars, parseVars, frameVars, startVars,
                   dcgmi_present>>

\* an exception in the loop (the engine is gone, inject_value fails): the
\* call logs it and returns False
InjectFail ==
    /\ ipos >= 1
    /\ ipos' = 0
    /\ UNCHANGED <<profiles, gpu_ids, sample, faultLog, config, exporterVars,
                   udsVars, parseVars, frameVars, startVars,
                   dcgmi_present>>

-----------------------------------------------------------------------------
(* DCGMFakeManager.start, start_host_engine, stop.                         *)
(*                                                                         *)
(* hostengine is "none", "running", "zombie" (exited and not waited for),  *)
(* "reaped" (exited and seen by process.poll()) or "killed" (by stop).     *)
(* pid_file is "none", "stale" (names no process), "earlier" (names the    *)
(* live engine of an earlier run) or "engine" (names the engine this call  *)
(* launched).                                                              *)

\* start_host_engine: max_retries = 15
hostengine_max_retries == 15

\* what the file at self.pid_file can name when start() is called
PidFiles == {"none", "stale", "earlier"}

\* is_running: the PID file names a process os.kill(pid, 0) finds
is_running ==
    \/ pid_file = "earlier"
    \/ pid_file = "engine" /\ hostengine \in {"running", "zombie"}

\* stop(): SIGTERM, SIGKILL if needed, os.remove(self.pid_file); nothing if
\* is_running is False
StopEngine ==
    IF is_running
    THEN /\ pid_file' = "none"
         /\ hostengine' = IF pid_file = "engine" THEN "killed" ELSE hostengine
    ELSE UNCHANGED <<pid_file, hostengine>>

\* start(): running, pid = self.is_running(); on 'y' stop and go on, on
\* another answer return False
StartCheck(answer) ==
    /\ startPc = "check"
    /\ profiles # << >>
    /\ IF is_running
       THEN IF answer = "y"
            THEN /\ StopEngine
                 /\ startPc' = "launch"
                 /\ UNCHANGED returned
            ELSE /\ startPc' = "returned"
                 /\ returned' = "False"
                 /\ UNCHANGED <<pid_file, hostengine>>
       ELSE /\ startPc' = "launch"
            /\ UNCHANGED <<pid_file, hostengine, returned>>
    /\ UNCHANGED <<polls, updater_thread, managerVars, exporterVars, udsVars,
                   parseVars, frameVars, dcgmi_present>>

\* start_host_engine: subprocess.Popen, the PID is written to the PID file
LaunchHostEngine ==
    /\ startPc = "launch"
    /\ hostengine' = "running"
    /\ pid_file' = "engine"
    /\ polls' = 0
    /\ startPc' = "wait"
    /\ UNCHANGED <<updater_thread, returned, managerVars, exporterVars,
                   udsVars, parseVars, frameVars, dcgmi_present>>

\* the engine process exits by itself
EngineExits ==
    /\ hostengine = "running"
    /\ startPc \in {"wait", "ready", "created", "injected"}
    /\ hostengine' = "zombie"
    /\ UNCHANGED <<startPc, pid_file, polls, updater_thread, returned,
                   managerVars, exporterVars, udsVars, parseVars, frameVars,
                   dcgmi_present>>

\* one pass of the wait loop of start_host_engine: time.sleep(2); return
\* False if process.poll() is not None; return True if is_port_open(5555);
\* after the last pass return False; start() returns False if it did
Poll(port_open) ==
    /\ startPc = "wait"
    /\ polls < hostengine_max_retries
    /\ IF hostengine # "running"
       THEN /\ hostengine' = "reaped"
            /\ startPc' = "returned"
            /\ returned' = "False"
            /\ UNCHANGED polls
       ELSE IF port_open
       THEN /\ startPc' = "ready"
            /\ UNCHANGED <<hostengine, polls, returned>>
       ELSE /\ polls' = polls + 1
            /\ IF polls + 1 = hostengine_max_retries
               THEN /\ startPc' = "returned"
                    /\ returned' = "False"
               ELSE UNCHANGED <<startPc, returned>>
            /\ UNCHANGED hostengine
    /\ UNCHANGED <<pid_file, updater_thread, managerVars, exporterVars,
                   udsVars, parseVars, frameVars, dcgmi_present>>

\* if not self.create_fake_gpus(): self.stop(); return False
CreateFakeGpus(ok) ==
    /\ startPc = "ready"
    /\ IF ok
       THEN /\ startPc' = "created"
            /\ UNCHANGED <<pid_file, hostengine, returned>>
       ELSE /\ StopEngine
            /\ startPc' = "returned"
            /\ returned' = "False"
    /\ UNCHANGED <<polls, updater_thread, managerVars, exporterVars, udsVars,
                   parseVars, frameVars, dcgmi_present>>

\* if not self.inject_metrics(): warn; the call of inject_metrics of a
\* manager whose engine has one fake device: the device is injected, or the
\* call fails before it and returns False
StartInject ==
    /\ startPc = "created"
    /\ ipos = 0
    /\ Len(FakeGpuIds(gpu_ids)) = 1
    /\ LET gpu_id == FakeGpuIds(gpu_ids)[1]
           i == ProfileIndex(gpu_id)
       IN  \/ \E d \in Draws(profiles[i]) :
                LET r == Apply(profiles[i], gpu_id, d)
                IN  /\ profiles' = [profiles EXCEPT ![i] = r.profile]
                    /\ faultLog' =
                         [faultLog EXCEPT
                            ![i] = FaultLogAfter(@, profiles[i], r.profile, d)]
                    /\ sample' = Injected(gpu_id, r.profile, r.metrics)
           \/ UNCHANGED <<profiles, faultLog, sample>>
    /\ startPc' = "injected"
    /\ UNCHANGED <<hostengine, pid_file, polls, updater_thread, returned,
                   gpu_ids, ipos, config, exporterVars, udsVars, parseVars,
                   frameVars, dcgmi_present>>

\* self.start_metric_updater(); self.create_wrapper(); return True
StartUpdater ==
    /\ startPc = "injected"
    /\ updater_thread' = TRUE
    /\ startPc' = "returned"
    /\ returned' = "True"
    /\ UNCHANGED <<hostengine, pid_file, polls, managerVars, exporterVars,
                   udsVars, parseVars, frameVars, dcgmi_present>>

-----------------------------------------------------------------------------
(* dcgm_uds_server.py: the local-socket server.                            *)
(*                                                                         *)
(* Times are in 1/128 s: retry_delay starts at 64 (0.5 s) and is capped    *)
(* at 640 (5.0 s); every value retry_delay takes is a whole number of      *)
(* these units.  What is done to a client socket is the sequence of its    *)
(* events: a write of (a part of) a response, the half-close, the close.   *)

\* handle_client: max_retries
max_retries == 10

\* the connections clients make in a run
Conns == {1, 2}

\* what the network front end can answer to GET /metrics
FrontDocs == {EmptyDoc, HeaderBlock(1)}

NoAnswer == [status_code |-> 0, text |-> EmptyDoc]

\* requests.get returns: the response of the front end
Answers == {[status_code |-> 200, text |-> d] : d \in FrontDocs}

\* requests.get raises: requests.exceptions.ConnectionError,
\* requests.exceptions.Timeout, or an exception that is neither
AttemptErrors == {"ConnectionError", "Timeout", "TooManyRedirects"}

\* a handler that takes every exception of requests.get as a reason to retry
RetryableAlways(e) == TRUE

\* except (requests.exceptions.ConnectionError, requests.exceptions.Timeout)
Retryable(e) == e \in {"ConnectionError", "Timeout"}

\* f"Error: {str(e)}\r\n"
ErrorBody(e) == << Line("TEXT", "", e, -1, 0, NoInfo) >>

\* a success response without the text of the front end
OkResponseNoBody(r) ==
    [status |-> r.status_code, reason |-> "OK",
     headers |-> <<"Content-Type", "Content-Length">>, body |-> EmptyDoc]

\* http_response: status line, Content-Type, Content-Length, blank line,
\* response.text
OkResponse(r) ==
    [status |-> r.status_code, reason |-> "OK",
     headers |-> <<"Content-Type", "Content-Length">>, body |-> r.text]

\* characters of one response.text
MaxChars == 3

\* the code points of the texts of the model: a letter, a line feed, and
\* characters of a host name outside ASCII (U+00E9, U+20AC, U+1F600)
CodePoints == {65, 10, 233, 8364, 128512}

\* response.text: a str, a sequence of code points
Texts == SeqsUpTo(CodePoints, MaxChars)

\* the UTF-8 encoding of one code point
Utf8(cp) ==
    IF cp < 128 THEN << cp >>
    ELSE IF cp < 2048 THEN << 192 + (cp \div 64), 128 + (cp % 64) >>
    ELSE IF cp < 65536
         THEN << 224 + (cp \div 4096), 128 + ((cp \div 64) % 64),
                 128 + (cp % 64) >>
    ELSE << 240 + (cp \div 262144), 128 + ((cp \div 4096) % 64),
            128 + ((cp \div 64) % 64), 128 + (cp % 64) >>

\* str.encode('utf-8')
RECURSIVE Encode(_)
Encode(text) ==
    IF text = << >> THEN << >> ELSE Utf8(Head(text)) \o Encode(Tail(text))

\* f"Content-Length: {len(response.text)}\r\n\r\n{response.text}" and
\* sendall(http_response.encode('utf-8')): the number in the header and the
\* bytes written after the blank line
HttpResponse(text) == [content_length |-> Len(text), body |-> Encode(text)]

\* the success response of handle_client for one text of the front end
FrameCall ==
    /\ http_response = NoFrame
    /\ \E text \in Texts :
          /\ response_text' = text
          /\ http_response' = HttpResponse(text)
    /\ UNCHANGED <<exporterVars, managerVars, udsVars, parseVars, startVars,
                   dcgmi_present>>

\* a 500 response with the headers of the success response
FramedErrorResponse(e) ==
    [status |-> 500, reason |-> "Internal Server Error",
     headers |-> <<"Content-Type", "Content-Length">>, body |-> ErrorBody(e)]

\* error_msg: status line, blank line, the error text
ErrorResponse(e) ==
    [status |-> 500, reason |-> "Internal Server Error",
     headers |-> << >>, body |-> ErrorBody(e)]

NoResponse ==
    [status |-> 0, reason |-> "", headers |-> << >>, body |-> EmptyDoc]

\* events of a client socket
Written(resp, whole) == [ev |-> "write", resp |-> resp, whole |-> whole]

HalfClosed == [ev |-> "shutdown", resp |-> NoResponse, whole |-> TRUE]

Closed == [ev |-> "close", resp |-> NoResponse, whole |-> TRUE]

\* a connection nobody has made yet
FreeConn ==
    [pc |-> "free", attempt |-> 0, retry_delay |-> 0, requests |-> 0,
     delays |-> << >>, response |-> NoAnswer, error |-> "", sock |-> << >>]

\* max_retries = 10; retry_delay = 0.5; attempt = 0
NewConn == [FreeConn EXCEPT !.pc = "request", !.retry_delay = 64]

\* a backoff that does not grow
SameDelay(retry_delay) == retry_delay

\* retry_delay = min(retry_delay * 1.5, 5.0)
NextDelay(retry_delay) == Min((retry_delay * 3) \div 2, 640)

NoPath == [exists |-> FALSE, owner |-> "", mode |-> ""]

\* a socket file an earlier run left
StalePath == [exists |-> TRUE, owner |-> "stale", mode |-> "umask"]

\* the server process does not run
UdsOff ==
    /\ srv = "off"
    /\ uds_path = NoPath
    /\ socket_dir = FALSE
    /\ lastUnlink = "none"
    /\ conns = [c \in Conns |-> FreeConn]

\* main with ENABLE_UDS true, at the first line of start_uds_server: the
\* path is absent, with or without its directory, or left by an earlier run
UdsInit ==
    /\ srv = "start"
    /\ \/ uds_path = NoPath /\ socket_dir \in BOOLEAN
       \/ uds_path = StalePath /\ socket_dir = TRUE
    /\ lastUnlink = "none"
    /\ conns = [c \in Conns |-> FreeConn]

\* os.unlink(UDS_PATH): the file is removed, or OSError
Unlink(ok) ==
    IF uds_path.exists
    THEN /\ uds_path' = IF ok THEN NoPath ELSE uds_path
         /\ lastUnlink' = IF ok THEN "ok" ELSE "failed"
    ELSE /\ ok
         /\ UNCHANGED <<uds_path, lastUnlink>>

\* if os.path.exists(UDS_PATH): try: os.unlink(UDS_PATH) except OSError: warn
RemoveStale ==
    /\ srv = "start"
    /\ \E ok \in BOOLEAN : Unlink(ok)
    /\ srv' = "mkdir"
    /\ UNCHANGED <<socket_dir, conns, exporterVars, managerVars, parseVars, frameVars, startVars,
                   dcgmi_present>>

\* os.makedirs(socket_dir, exist_ok=True), which can raise: that is outside
\* the try of start_uds_server
MakeDir ==
    /\ srv = "mkdir"
    /\ \/ socket_dir' = TRUE /\ srv' = "bind"
       \/ ~socket_dir /\ socket_dir' = socket_dir /\ srv' = "mainFinally"
    /\ UNCHANGED <<uds_path, lastUnlink, conns, exporterVars, managerVars, parseVars, frameVars, startVars,
                   dcgmi_present>>

\* server.bind(UDS_PATH): fails when the path exists, and can fail otherwise
Bind ==
    /\ srv = "bind"
    /\ \/ /\ ~uds_path.exists
          /\ uds_path' = [exists |-> TRUE, owner |-> "server", mode |-> "umask"]
          /\ srv' = "listen"
       \/ /\ uds_path' = uds_path
          /\ srv' = "finally"
    /\ UNCHANGED <<socket_dir, lastUnlink, conns, exporterVars, managerVars, parseVars, frameVars, startVars,
                   dcgmi_present>>

\* a server that listens and leaves the mode of the path as bind made it
ListenOnly ==
    /\ srv = "listen"
    /\ srv' = "accept"
    /\ UNCHANGED <<uds_path, socket_dir, lastUnlink, conns, exporterVars,
                   managerVars, parseVars, frameVars, startVars,
                   dcgmi_present>>

\* server.listen(10); os.chmod(UDS_PATH, 0o666)
ListenChmod ==
    /\ srv = "listen"
    /\ \/ uds_path' = [uds_path EXCEPT !.mode = "0666"] /\ srv' = "accept"
       \/ uds_path' = uds_path /\ srv' = "finally"
    /\ UNCHANGED <<socket_dir, lastUnlink, conns, exporterVars, managerVars, parseVars, frameVars, startVars,
                   dcgmi_present>>

\* an accept loop that runs the handler itself
UdsAcceptInline(c) ==
    /\ srv = "accept"
    /\ conns[c].pc = "free"
    /\ \A d \in Conns : conns[d].pc \in {"free", "done"}
    /\ conns' = [conns EXCEPT ![c] = NewConn]
    /\ UNCHANGED <<srv, uds_path, socket_dir, lastUnlink, exporterVars,
                   managerVars, parseVars, frameVars, startVars,
                   dcgmi_present>>

\* client, _ = server.accept(); Thread(target=handle_client).start()
UdsAccept(c) ==
    /\ srv = "accept"
    /\ conns[c].pc = "free"
    /\ \A d \in Conns : d < c => conns[d].pc # "free"
    /\ conns' = [conns EXCEPT ![c] = NewConn]
    /\ UNCHANGED <<srv, uds_path, socket_dir, lastUnlink, exporterVars,
                   managerVars, parseVars, frameVars, startVars,
                   dcgmi_present>>

\* an accept loop that an error of accept ends
AcceptErrorEnds ==
    /\ srv = "accept"
    /\ srv' = "finally"
    /\ UNCHANGED <<uds_path, socket_dir, lastUnlink, conns, exporterVars,
                   managerVars, parseVars, frameVars, startVars,
                   dcgmi_present>>

\* accept (or the start of the thread) raises an Exception: it is printed
AcceptError ==
    /\ srv = "accept"
    /\ srv' = "acceptFailed"
    /\ UNCHANGED <<uds_path, socket_dir, lastUnlink, conns, exporterVars,
                   managerVars, parseVars, frameVars, startVars,
                   dcgmi_present>>

\* time.sleep(0.1) and the next pass of the loop
AcceptResume ==
    /\ srv = "acceptFailed"
    /\ srv' = "accept"
    /\ UNCHANGED <<uds_path, socket_dir, lastUnlink, conns, exporterVars,
                   managerVars, parseVars, frameVars, startVars,
                   dcgmi_present>>

\* KeyboardInterrupt in the main thread: inside the try of start_uds_server
\* it leads to its finally, before it to the finally of main
Interrupt ==
    /\ srv \in {"start", "mkdir", "bind", "listen", "accept", "acceptFailed"}
    /\ srv' = IF srv \in {"start", "mkdir"} THEN "mainFinally" ELSE "finally"
    /\ UNCHANGED <<uds_path, socket_dir, lastUnlink, conns, exporterVars,
                   managerVars, parseVars, frameVars, startVars,
                   dcgmi_present>>

\* finally of start_uds_server: server.close(); if the path exists,
\* os.unlink(UDS_PATH), whose failure is dropped
Finally ==
    /\ srv = "finally"
    /\ \E ok \in BOOLEAN : Unlink(ok)
    /\ srv' = "mainFinally"
    /\ UNCHANGED <<socket_dir, conns, exporterVars, managerVars, parseVars, frameVars, startVars,
                   dcgmi_present>>

\* finally of main: the same removal once more
MainFinally ==
    /\ srv = "mainFinally"
    /\ \E ok \in BOOLEAN : Unlink(ok)
    /\ srv' = "ended"
    /\ UNCHANGED <<socket_dir, conns, exporterVars, managerVars, parseVars, frameVars, startVars,
                   dcgmi_present>>

\* a handler thread that has not reached its end
Running(c) == conns[c].pc \notin {"free", "done", "killed"}

\* main has returned: the process exits; the handler threads are daemon
\* threads and end where they stand, their sockets closed with the process
ProcessExit ==
    /\ srv = "ended"
    /\ srv' = "exited"
    /\ conns' = [c \in Conns |->
                   IF Running(c)
                   THEN [conns[c] EXCEPT !.pc = "killed",
                                         !.sock = Append(@, Closed)]
                   ELSE conns[c]]
    /\ UNCHANGED <<uds_path, socket_dir, lastUnlink, exporterVars,
                   managerVars, parseVars, frameVars, startVars,
                   dcgmi_present>>

\* handle_client: response = requests.get(METRICS_URL, timeout=5) in pass
\* `attempt` of the loop.  It returns (break), or raises e: an exception that
\* is retried leads to the backoff while attempt < max_retries - 1 and is
\* raised again in the last pass; an exception raised leads to the outer
\* except
Request(c) ==
    /\ conns[c].pc = "request"
    /\ \/ \E r \in Answers :
            conns' = [conns EXCEPT ![c].requests = @ + 1,
                                   ![c].response = r,
                                   ![c].pc = "send"]
       \/ \E e \in AttemptErrors :
            conns' = [conns EXCEPT
                        ![c].requests = @ + 1,
                        ![c].error = e,
                        ![c].pc =
                            IF Retryable(e) /\ conns[c].attempt < max_retries - 1
                            THEN "backoff" ELSE "fail"]
    /\ UNCHANGED <<srv, uds_path, socket_dir, lastUnlink, exporterVars,
                   managerVars, parseVars, frameVars, startVars,
                   dcgmi_present>>

\* time.sleep(retry_delay); retry_delay = min(retry_delay * 1.5, 5.0); the
\* next pass of the loop
Backoff(c) ==
    /\ conns[c].pc = "backoff"
    /\ conns' = [conns EXCEPT
                   ![c].delays = Append(@, conns[c].retry_delay),
                   ![c].retry_delay = NextDelay(@),
                   ![c].attempt = @ + 1,
                   ![c].pc = "request"]
    /\ UNCHANGED <<srv, uds_path, socket_dir, lastUnlink, exporterVars,
                   managerVars, parseVars, frameVars, startVars,
                   dcgmi_present>>

\* what a failed sendall leaves on the socket: nothing, or a part of the
\* response (the caller cannot tell how much was sent)
FailedWrite(sock, resp) == {sock, Append(sock, Written(resp, FALSE))}

\* client_socket.sendall(http_response.encode('utf-8')): all of it is
\* written, or an exception leads to the outer except
SendOk(c) ==
    /\ conns[c].pc = "send"
    /\ \/ conns' = [conns EXCEPT
                      ![c].sock =
                          Append(@, Written(OkResponse(conns[c].response), TRUE)),
                      ![c].pc = "shutdown"]
       \/ \E s \in FailedWrite(conns[c].sock, OkResponse(conns[c].response)) :
            conns' = [conns EXCEPT ![c].sock = s,
                                   ![c].error = "OSError",
                                   ![c].pc = "fail"]
    /\ UNCHANGED <<srv, uds_path, socket_dir, lastUnlink, exporterVars,
                   managerVars, parseVars, frameVars, startVars,
                   dcgmi_present>>

\* except Exception as e: try: client_socket.sendall(error_msg.encode(..));
\* a failure of it skips the shutdown
SendError(c) ==
    /\ conns[c].pc = "fail"
    /\ \/ conns' = [conns EXCEPT
                      ![c].sock =
                          Append(@, Written(ErrorResponse(conns[c].error), TRUE)),
                      ![c].pc = "shutdown"]
       \/ \E s \in FailedWrite(conns[c].sock, ErrorResponse(conns[c].error)) :
            conns' = [conns EXCEPT ![c].sock = s, ![c].pc = "close"]
    /\ UNCHANGED <<srv, uds_path, socket_dir, lastUnlink, exporterVars,
                   managerVars, parseVars, frameVars, startVars,
                   dcgmi_present>>

\* a handler that half-closes and then writes once more
ShutdownThenWrite(c) ==
    /\ conns[c].pc = "shutdown"
    /\ conns' = [conns EXCEPT
                   ![c].sock = Append(Append(@, HalfClosed),
                                      Written(ErrorResponse("late"), TRUE)),
                   ![c].pc = "close"]
    /\ UNCHANGED <<srv, uds_path, socket_dir, lastUnlink, exporterVars,
                   managerVars, parseVars, frameVars, startVars,
                   dcgmi_present>>

\* try: client_socket.shutdown(socket.SHUT_WR) except: pass
Shutdown(c) ==
    /\ conns[c].pc = "shutdown"
    /\ \/ conns' = [conns EXCEPT ![c].sock = Append(@, HalfClosed),
                                 ![c].pc = "close"]
       \/ conns' = [conns EXCEPT ![c].pc = "close"]
    /\ UNCHANGED <<srv, uds_path, socket_dir, lastUnlink, exporterVars,
                   managerVars, parseVars, frameVars, startVars,
                   dcgmi_present>>

\* finally: try: client_socket.close() except: pass
Close(c) ==
    /\ conns[c].pc = "close"
    /\ conns' = [conns EXCEPT ![c].sock = Append(@, Closed),
                              ![c].pc = "done"]
    /\ UNCHANGED <<srv, uds_path, socket_dir, lastUnlink, exporterVars,
                   managerVars, parseVars, frameVars, startVars,
                   dcgmi_present>>

\* a step of the handler thread of connection c
HandleClient(c) ==
    \/ Request(c)
    \/ Backoff(c)
    \/ SendOk(c)
    \/ SendError(c)
    \/ Shutdown(c)
    \/ Close(c)

-----------------------------------------------------------------------------
(* Specifications *)

vars == <<mainPc, gpu_info_cache, metrics_cache, metrics_lock, pcR, h,
          lastCall, tickDoc, profiles, gpu_ids, ipos, sample, faultLog,
          config, srv, uds_path, socket_dir, lastUnlink, conns, rawReport,
          parsed, response_text, http_response, startPc, hostengine,
          pid_file, polls, updater_thread, returned, dcgmi_present>>

\* the exporter process
Init ==
    /\ \E present \in BOOLEAN : ExporterBoot(present)
    /\ ManagerOff
    /\ UdsOff

Next ==
    \/ StartupFatal
    \/ \E info \in GpuInfos : Startup(info)
    \/ TickAcquire
    \/ \E call \in Calls : TickCollect(call)
    \/ TickSleep
    \/ \E m \in Methods, p \in Paths : Accept(m, p)
    \/ HandleOtherMethod
    \/ DoGetMetricsAcquire
    \/ DoGetMetricsCopy
    \/ DoGetMetricsSend
    \/ DoGetHealth
    \/ DoGetNotFound

Spec == Init /\ [][Next]_vars

\* the manager process, for every configuration of the model
InitProfile ==
    /\ ExporterInit
    /\ StartOff
    /\ \E c \in ProfileConfigs :
         \E offsets \in [FakeSet(c.ids) -> OffsetSlots] :
            ManagerInit(c, offsets)
    /\ UdsOff

NextProfile ==
    \/ InjectBegin
    \/ InjectDevice
    \/ InjectFail

SpecProfile == InitProfile /\ [][NextProfile]_vars

\* the faulty profile on each of the devices 1..MAX_FAKE_GPUS
FaultyConfigs ==
    {Config(MAX_FAKE_GPUS, "faulty", << >>, <<0, g>>) : g \in 1..MAX_FAKE_GPUS}

InitFaulty ==
    /\ ExporterInit
    /\ StartOff
    /\ \E c \in FaultyConfigs : ManagerInit(c, << >>)
    /\ UdsOff

SpecFaulty == InitFaulty /\ [][NextProfile]_vars

\* the managers start() is called on in the model: one fake device
StartConfigs ==
    {Config(1, n, << >>, <<0, 1>>) : n \in {"static", "faulty", "chaos"}}

\* a constructed manager before start(), with what the PID file names
InitStart ==
    /\ ExporterInit
    /\ NotStarted
    /\ pid_file \in PidFiles
    /\ \E c \in StartConfigs : ManagerInit(c, << >>)
    /\ UdsOff

NextStart ==
    \/ \E answer \in {"y", "n"} : StartCheck(answer)
    \/ LaunchHostEngine
    \/ EngineExits
    \/ \E port_open \in BOOLEAN : Poll(port_open)
    \/ \E ok \in BOOLEAN : CreateFakeGpus(ok)
    \/ StartInject
    \/ StartUpdater

SpecStart == InitStart /\ [][NextStart]_vars

NextFrame == FrameCall

\* the framing of the success response as a function of response.text
SpecFrame == Init /\ [][NextFrame]_vars

\* a degrading or a wave profile over a long run
InitLongRun ==
    /\ ExporterInit
    /\ StartOff
    /\ \E c \in LongRunConfigs :
         \E offsets \in [FakeSet(c.ids) -> OffsetSlots] :
            ManagerInit(c, offsets)
    /\ UdsOff

SpecLongRun == InitLongRun /\ [][NextProfile]_vars

\* the refresh thread runs: it takes the lock when the lock is free again
\* and again, every call of collect_metrics returns (the external call has a
\* timeout) and every sleep ends; a handler that holds the lock releases it
FairSpec ==
    /\ Spec
    /\ SF_vars(TickAcquire)
    /\ WF_vars(\E call \in Calls : TickCollect(call))
    /\ WF_vars(TickSleep)
    /\ WF_vars(DoGetMetricsCopy)

\* the refresh thread runs as in FairSpec, and the lock is fair to a reader:
\* a handler that waits for a lock that is free again and again gets it, and
\* a handler that has copied the cache sends it
FairSpecReaders ==
    /\ FairSpec
    /\ SF_vars(DoGetMetricsAcquire)
    /\ WF_vars(DoGetMetricsSend)

\* the configurations of the manager next to the exporter
DeviceConfigs ==
    {Config(2, "static", << >>, e) : e \in {<<0>>, <<0, 1>>, <<0, 1, 2>>}}

\* the exporter's refresh loop and the manager's injection side by side
InitDevices ==
    /\ \E present \in BOOLEAN : ExporterBoot(present)
    /\ StartOff
    /\ \E c \in DeviceConfigs : ManagerInit(c, << >>)
    /\ UdsOff

NextDevices ==
    \/ StartupFatal
    \/ \E info \in GpuInfos : Startup(info)
    \/ TickAcquire
    \/ \E call \in Calls : TickCollect(call)
    \/ TickSleep
    \/ InjectBegin
    \/ InjectDevice
    \/ InjectFail

SpecDevices == InitDevices /\ [][NextDevices]_vars

\* parse_dcgmi_output alone
NextParse == ParseCall

SpecParse == Init /\ [][NextParse]_vars

\* the local-socket server from its start to the exit of the process, with
\* one client
InitUds == ExporterInit /\ ManagerOff /\ UdsInit

NextUds ==
    \/ RemoveStale
    \/ MakeDir
    \/ Bind
    \/ ListenChmod
    \/ \E c \in {1} : UdsAccept(c)
    \/ AcceptError
    \/ AcceptResume
    \/ Interrupt
    \/ Finally
    \/ MainFinally
    \/ ProcessExit
    \/ \E c \in Conns : Request(c)
    \/ \E c \in Conns : Backoff(c)
    \/ \E c \in Conns : SendOk(c)
    \/ \E c \in Conns : SendError(c)
    \/ \E c \in Conns : Shutdown(c)
    \/ \E c \in Conns : Close(c)

SpecUds == InitUds /\ [][NextUds]_vars

\* every handler thread that can take a step takes one: requests.get has a
\* timeout, the sleeps end, and the writes to the client end or fail; the
\* main thread, once it has left the accept loop, runs to its end
FairSpecUds ==
    /\ SpecUds
    /\ \A c \in Conns : WF_vars(HandleClient(c))
    /\ WF_vars(Finally)
    /\ WF_vars(MainFinally)
    /\ WF_vars(ProcessExit)

\* the local-socket server in its accept loop, with every client
UdsAccepting ==
    /\ srv = "accept"
    /\ uds_path = [exists |-> TRUE, owner |-> "server", mode |-> "0666"]
    /\ socket_dir = TRUE
    /\ lastUnlink = "none"
    /\ conns = [c \in Conns |-> FreeConn]

InitUdsConns == ExporterInit /\ ManagerOff /\ UdsAccepting

NextUdsConns ==
    \/ \E c \in Conns : UdsAccept(c)
    \/ AcceptError
    \/ AcceptResume
    \/ \E c \in Conns : HandleClient(c)

SpecUdsConns == InitUdsConns /\ [][NextUdsConns]_vars

-----------------------------------------------------------------------------
(* Properties *)

Failures == Outcomes \ {"ok"}

HasDataLine(doc) == \E i \in DOMAIN doc : doc[i].kind = "DATA"

CountLines(doc, kind, name, text) ==
    Cardinality({i \in DOMAIN doc :
                    /\ doc[i].kind = kind
                    /\ doc[i].name = name
                    /\ (text = "" \/ doc[i].text = text)})

\* one '# HELP <name> ..' line and one '# TYPE <name> gauge' line for every
\* registered name, and no other TYPE line for it
HeaderComplete(doc) ==
    \A name \in FieldNames :
        /\ CountLines(doc, "HELP", name, "") = 1
        /\ CountLines(doc, "TYPE", name, "gauge") = 1
        /\ CountLines(doc, "TYPE", name, "") = 1

NoHeaderLine(doc) == \A i \in DOMAIN doc : doc[i].kind \notin {"HELP", "TYPE"}

\* the request in h is a GET of '/metrics'
GetMetrics == h.method = "GET" /\ h.path = "/metrics"

\* C1: every body GET /metrics returns is, in full, the document one tick
\* stored (before the first tick: the empty document of the start).  The
\* cache is always exactly what the last tick's collect_metrics returned; a
\* copy taken by a handler is a whole document collect_metrics can return,
\* and equal to the last tick's while no tick has stored since; the body
\* sent is that copy.
NoTornDocument ==
    /\ metrics_cache = tickDoc
    /\ (GetMetrics /\ h.pc \in {"copied", "done"}) =>
          /\ \/ h.response = EmptyDoc
             \/ \E c \in Calls : c.info = gpu_info_cache /\ c.doc = h.response
          /\ h.fresh => h.response = tickDoc
    /\ (GetMetrics /\ h.pc = "done") => h.body = h.response

\* a reader holds the whole data document of an earlier tick while the cache
\* holds the data document of a later one
ReaderHoldsEarlierDocument ==
    /\ GetMetrics
    /\ h.pc = "done"
    /\ ~h.fresh
    /\ HasDataLine(h.body)
    /\ HasDataLine(metrics_cache)
    /\ h.body # metrics_cache

\* C2 as stated: every document a render produces, whatever the outcome of
\* the external call, has exactly one HELP and one TYPE gauge line for each
\* of the 9 registered fields.
EveryRenderHasHeader ==
    lastCall.outcome # "none" =>
        HeaderComplete(tickDoc) /\ HeaderComplete(metrics_cache)

\* C2, amended: every document of a tick whose external call succeeds has
\* exactly one HELP and one TYPE gauge line for each of the 9 registered
\* fields, even when no device reports any field; the document of a failed
\* tick has no HELP and no TYPE line.
SuccessfulRenderHasHeader ==
    /\ Cardinality(FieldNames) = 9
    /\ lastCall.outcome = "ok" =>
          HeaderComplete(tickDoc) /\ HeaderComplete(metrics_cache)
    /\ lastCall.outcome \in Failures =>
          NoHeaderLine(tickDoc) /\ NoHeaderLine(metrics_cache)

\* a successful tick with no data line: the document is the header block
HeaderWithoutData ==
    /\ lastCall.outcome = "ok"
    /\ ~HasDataLine(metrics_cache)
    /\ Len(metrics_cache) = 18
    /\ HeaderComplete(metrics_cache)

\* C3: a failed tick leaves the cache holding the one-line error marker of
\* its failure, whatever the cache held before, and a GET /metrics that
\* reads the cache after it returns the marker with status 200.
FailedTickStoresMarker ==
    /\ lastCall.outcome = "timeout" =>
          metrics_cache = ErrorDoc("dcgmi timeout")
    /\ lastCall.outcome = "nonzero" =>
          metrics_cache = ErrorDoc("dcgmi command failed")
    /\ lastCall.outcome = "exception" =>
          metrics_cache = ErrorDoc("collection failed")
    /\ lastCall.outcome \in Failures => Len(metrics_cache) = 1
    /\ (lastCall.outcome \in Failures /\ GetMetrics /\ h.pc = "done"
        /\ h.fresh) =>
          h.status = 200 /\ h.body = metrics_cache

\* a tick times out after a successful one and a reader gets the marker
MarkerServedAfterGoodTick ==
    /\ lastCall.before = "ok"
    /\ lastCall.outcome = "timeout"
    /\ GetMetrics
    /\ h.pc = "done"
    /\ h.fresh
    /\ h.status = 200
    /\ h.body = ErrorDoc("dcgmi timeout")

\* C4: no outcome of a tick ends the refresh loop: from every state of the
\* serving process, so after every tick, successful or failed, another tick
\* is eventually executed; a successful tick, also after failed ones, stores
\* a data document.
RefreshNeverStops ==
    /\ [](pcR \in {"off", "acquire", "collect", "sleep"})
    /\ [](pcR # "off" => mainPc = "serving")
    /\ (mainPc = "serving") ~> (pcR = "collect")
    /\ [](lastCall.outcome = "ok" =>
            HeaderComplete(metrics_cache) /\ metrics_cache = tickDoc)

\* a successful tick after a failed one has stored data, and the next tick
\* is being executed
TickAfterRecovery ==
    /\ lastCall.before \in Failures
    /\ lastCall.outcome = "ok"
    /\ HasDataLine(metrics_cache)
    /\ pcR = "collect"

\* C5: no data line of a document carries device id 0, also when the raw
\* report has a row for device 0, and the injection loop never stands on
\* device 0, evaluates no profile for it and injects no sample for it.
DeviceZeroNeverReported ==
    /\ \A i \in DOMAIN metrics_cache :
          metrics_cache[i].kind = "DATA" => metrics_cache[i].gpu # 0
    /\ \A i \in DOMAIN tickDoc :
          tickDoc[i].kind = "DATA" => tickDoc[i].gpu # 0
    /\ sample.gpu # 0
    /\ ipos >= 1 => FakeGpuIds(gpu_ids)[ipos] # 0

\* the engine lists device 0, the raw report has a row for it, and both the
\* render and the injection have produced data for another device
ZeroRowIgnored ==
    /\ lastCall.outcome = "ok"
    /\ lastCall.zeroRow
    /\ HasDataLine(metrics_cache)
    /\ gpu_ids[1] = 0
    /\ sample.gpu >= 1

\* C6: a GET is answered by its path: '/metrics' with status 200, a
\* text/plain content type and the cached document as read under the lock;
\* '/health' with status 200 and the body OK\n, whatever the cache holds;
\* any other path with status 404 and no body.
GetRoutes ==
    (h.method = "GET" /\ h.pc = "done") =>
        /\ h.path = "/metrics" =>
              /\ h.status = 200
              /\ h.ctype = "text/plain; charset=utf-8"
              /\ h.body = h.response
              /\ h.fresh => h.body = metrics_cache
        /\ h.path = "/health" => h.status = 200 /\ h.body = HealthBody
        /\ h.path \notin {"/metrics", "/health"} =>
              h.status = 404 /\ h.body = EmptyDoc

\* '/health' is answered OK while the cache holds an error marker
HealthWhileFailed ==
    /\ h.method = "GET"
    /\ h.path = "/health"
    /\ h.pc = "done"
    /\ h.status = 200
    /\ h.body = HealthBody
    /\ metrics_cache = ErrorDoc("dcgmi command failed")

\* C7 as stated: a request with another method than GET is answered with
\* status 404 and an empty body.
OtherMethodsAnswered404 ==
    (h.method # "GET" /\ h.pc = "done") =>
        h.status = 404 /\ h.body = EmptyDoc

\* C7, amended: a request with another method than GET is answered, for
\* every path, with status 501; the body is an error page, and empty for
\* HEAD; it is never answered 404.
OtherMethodsAnswered501 ==
    (h.method # "GET" /\ h.pc = "done") =>
        /\ h.status = 501
        /\ h.body = IF h.method = "HEAD" THEN EmptyDoc ELSE ErrorPage

\* a POST to '/metrics' has been answered
PostMetricsAnswered ==
    /\ h.method = "POST"
    /\ h.path = "/metrics"
    /\ h.pc = "done"
    /\ h.status = 501

\* C8: a step of the front end leaves the cache and the refresh thread as
\* they are; the cache changes only in the store of a tick; what a handler
\* has read since the last store is the cache, so two reads with no store
\* between them are equal.
ServingLeavesCacheAlone ==
    /\ [][h'.pc # h.pc =>
            /\ metrics_cache' = metrics_cache
            /\ pcR' = pcR
            /\ tickDoc' = tickDoc
            /\ lastCall' = lastCall]_vars
    /\ [][metrics_cache' # metrics_cache =>
            pcR = "collect" /\ pcR' # "collect" /\ h'.pc = h.pc]_vars
    /\ []((h.pc \in {"copied", "done"} /\ GetMetrics /\ h.fresh) =>
            h.response = metrics_cache)

\* a read of a data document has been served and no tick has stored since
ReadBetweenStores ==
    /\ GetMetrics
    /\ h.pc = "done"
    /\ h.fresh
    /\ HasDataLine(h.body)
    /\ h.body = metrics_cache
    /\ pcR = "sleep"

\* C9 as stated: a fault that began with the countdown C drawn and is over
\* has left the profile faulting in exactly C further calls of apply.
FaultLastsCountdown ==
    \A i \in DOMAIN faultLog :
        faultLog[i].exited => faultLog[i].further = faultLog[i].drawn

\* the interval of every clamped metric, by profile
InClampIntervals(s) ==
    LET temp_max == CASE s.profile = "static" -> 85
                      [] s.profile \in {"stable", "wave"} -> 90
                      [] s.profile \in {"spike", "degrading", "chaos"} -> 95
                      [] OTHER -> 100
        power_min == IF s.profile = "faulty" THEN 50 ELSE 100
        power_max == IF s.profile = "static" THEN 300 ELSE 350
    IN  /\ s.temp \in 45..temp_max
        /\ s.power \in power_min..power_max
        /\ s.gpu_util \in 0..100
        /\ s.mem_util \in 0..100
        /\ s.fb_used \in 2048..14336

\* C10: for every profile and every device id >= 1, every injected sample
\* has temperature, power, both utilizations and used framebuffer within
\* the clamp interval of the profile.
SamplesWithinClampIntervals ==
    sample.gpu >= 1 =>
        /\ sample.profile \in PROFILES
        /\ InClampIntervals(sample)

\* the static profile of device 16, where the clamp cuts temperature, power
\* and used framebuffer
StaticSampleClamped ==
    /\ sample.gpu = MAX_FAKE_GPUS
    /\ sample.profile = "static"
    /\ sample.temp = 85
    /\ sample.power = 300
    /\ sample.fb_used = 14336

\* the waits of a handler that fails every time, in 1/128 s: 0.5 s, then
\* 1.5 times the wait before, at most 5 s
DelaySchedule == <<64, 96, 144, 216, 324, 486, 640, 640, 640>>

\* C11: a handler makes at most 10 requests for one connection; between two
\* attempts it waits, the first wait is 0.5 s, every further wait is 1.5
\* times the one before and never more than 5 s, and there is no wait after
\* the 10th attempt.
BoundedRetriesWithBackoff ==
    \A c \in Conns :
        /\ conns[c].requests <= 10
        /\ Len(conns[c].delays) <= 9
        /\ conns[c].pc = "backoff" => conns[c].requests <= 9
        /\ conns[c].pc = "request" =>
              Len(conns[c].delays) = conns[c].requests
        /\ conns[c].pc \in {"send", "fail"} /\ conns[c].error # "OSError" =>
              Len(conns[c].delays) = conns[c].requests - 1
        /\ \A i \in DOMAIN conns[c].delays :
              /\ conns[c].delays[i] = DelaySchedule[i]
              /\ conns[c].delays[i] <= 5 * 128
              /\ i = 1 => 2 * conns[c].delays[i] = 128
              /\ i > 1 =>
                    \/ 2 * conns[c].delays[i] \in
                          {3 * conns[c].delays[i - 1],
                           3 * conns[c].delays[i - 1] - 1}
                    \/ /\ conns[c].delays[i] = 5 * 128
                       /\ 3 * conns[c].delays[i - 1] >= 2 * 5 * 128

\* ten attempts have failed: nine waits, the last ones of 5 s, none after
\* the 10th attempt
TenAttemptsNineWaits ==
    \E c \in Conns :
        /\ conns[c].requests = 10
        /\ conns[c].pc = "fail"
        /\ conns[c].delays = DelaySchedule

\* C12: a handler waits and retries only after a ConnectionError or a
\* Timeout; after any other failure of the request it makes no further
\* attempt and does not wait, and the response it writes to the client is
\* the 500 response.
OtherFailureEndsLoop ==
    \A c \in Conns :
        /\ conns[c].pc = "backoff" =>
              conns[c].error \in {"ConnectionError", "Timeout"}
        /\ conns[c].error = "TooManyRedirects" =>
              /\ conns[c].pc \notin {"request", "backoff", "send"}
              /\ Len(conns[c].delays) = conns[c].requests - 1
              /\ conns[c].response = NoAnswer
              /\ \A i \in DOMAIN conns[c].sock :
                    conns[c].sock[i].ev = "write" =>
                        /\ i = 1
                        /\ conns[c].sock[i].resp.status = 500
                        /\ conns[c].sock[i].resp.body =
                              ErrorBody("TooManyRedirects")
              /\ conns[c].pc = "shutdown" =>
                    conns[c].sock =
                        << Written([status |-> 500,
                                    reason |-> "Internal Server Error",
                                    headers |-> conns[c].sock[1].resp.headers,
                                    body |-> ErrorBody("TooManyRedirects")],
                                   TRUE) >>

\* the third attempt fails with an error that is not retried: two waits,
\* three requests, the 500 response
ThirdAttemptOtherFailure ==
    \E c \in Conns :
        /\ conns[c].pc = "done"
        /\ conns[c].error = "TooManyRedirects"
        /\ conns[c].requests = 3
        /\ conns[c].delays = <<64, 96>>
        /\ conns[c].sock[1].ev = "write"
        /\ conns[c].sock[1].whole
        /\ conns[c].sock[1].resp.status = 500

\* the one response a handler has written in whole
WholeResponses(c) ==
    {conns[c].sock[i].resp : i \in {j \in DOMAIN conns[c].sock :
        conns[c].sock[j].ev = "write" /\ conns[c].sock[j].whole}}

\* C13: when the front end answers on attempt k of 1..10 after k - 1
\* failures that are retried, the handler makes no further attempt and the
\* response it writes is the 200 response with the document of the front
\* end as its body; when all 10 attempts fail, the response it writes is
\* the 500 response.
AnswerEndsAttempts ==
    /\ [][\A c \in Conns :
            conns[c].response # NoAnswer =>
                /\ conns'[c].requests = conns[c].requests
                /\ conns'[c].response = conns[c].response]_vars
    /\ [](\A c \in Conns :
            /\ conns[c].response # NoAnswer =>
                  /\ conns[c].requests \in 1..10
                  /\ Len(conns[c].delays) = conns[c].requests - 1
                  /\ conns[c].pc \notin {"request", "backoff"}
                  /\ conns[c].error # "OSError" /\
                     conns[c].pc \in {"shutdown", "close", "done"} =>
                        \E r \in WholeResponses(c) :
                            /\ WholeResponses(c) = {r}
                            /\ r.status = 200
                            /\ r.body = conns[c].response.text
            /\ conns[c].response = NoAnswer /\ conns[c].requests = 10 =>
                  /\ conns[c].pc \notin {"request", "backoff", "send"}
                  /\ \A i \in DOMAIN conns[c].sock :
                        conns[c].sock[i].ev = "write" =>
                            conns[c].sock[i].resp.status = 500
                  /\ conns[c].pc = "shutdown" =>
                        \E r \in WholeResponses(c) :
                            /\ WholeResponses(c) = {r}
                            /\ r.status = 500)

\* the front end answers the 10th attempt with a document, and the client
\* has it
TenthAttemptAnswered ==
    \E c \in Conns :
        /\ conns[c].pc = "done"
        /\ conns[c].requests = 10
        /\ Len(conns[c].delays) = 9
        /\ conns[c].response.text = HeaderBlock(1)
        /\ conns[c].sock[1] = Written([status |-> 200, reason |-> "OK",
                                       headers |-> <<"Content-Type",
                                                     "Content-Length">>,
                                       body |-> HeaderBlock(1)], TRUE)

\* the responses (whole or in part) written to the socket of connection c
ResponsesOn(c) ==
    {conns[c].sock[i].resp : i \in {j \in DOMAIN conns[c].sock :
        conns[c].sock[j].ev = "write"}}

AtMostOneResponse ==
    \A c \in Conns :
        Cardinality({i \in DOMAIN conns[c].sock :
                        conns[c].sock[i].ev = "write"}) <= 1

\* the rank of an event of a client socket in the order write, half-close,
\* close
EventRank(e) ==
    CASE e.ev = "write" -> 1
      [] e.ev = "shutdown" -> 2
      [] e.ev = "close" -> 3

\* C16: on every path of a handler the events of its socket are ordered:
\* the bytes of the response, then the half-close of the write side, then
\* the close; nothing is written after the half-close, the half-close
\* follows a response written in whole, and every connection accepted is
\* closed in the end.
WriteShutdownCloseInOrder ==
    /\ [](\A c \in Conns :
            /\ \A i, j \in DOMAIN conns[c].sock :
                  i < j =>
                      /\ EventRank(conns[c].sock[i]) <=
                            EventRank(conns[c].sock[j])
                      /\ conns[c].sock[j].ev # "write" =>
                            EventRank(conns[c].sock[i]) <
                               EventRank(conns[c].sock[j])
            /\ \A j \in DOMAIN conns[c].sock :
                  conns[c].sock[j].ev = "shutdown" =>
                      /\ j > 1
                      /\ conns[c].sock[j - 1].ev = "write"
                      /\ conns[c].sock[j - 1].whole
            /\ conns[c].pc \in {"done", "killed"} <=>
                  /\ conns[c].sock # << >>
                  /\ conns[c].sock[Len(conns[c].sock)] = Closed)
    /\ \A c \in Conns :
          (conns[c].pc # "free") ~> (conns[c].pc \in {"done", "killed"})

\* a handler has written the success response, half-closed and closed
WrittenHalfClosedClosed ==
    \E c \in Conns :
        /\ conns[c].pc = "done"
        /\ Len(conns[c].sock) = 3
        /\ conns[c].sock[1].ev = "write"
        /\ conns[c].sock[1].resp.status = 200
        /\ conns[c].sock[2] = HalfClosed
        /\ conns[c].sock[3] = Closed

\* the server thread has left start_uds_server or has ended
ServerEnded == srv \in {"ended", "exited"}

\* C17 as stated: a stale path is removed before the bind; after the bind
\* the mode is 0666 before any connection is accepted; after the server
\* ends, by any path, the socket path no longer exists.
PathRemovedOnEveryPath ==
    /\ srv = "bind" => ~uds_path.exists
    /\ srv \in {"accept", "acceptFailed"} => uds_path.mode = "0666"
    /\ ServerEnded => ~uds_path.exists

\* C17: the removal of a stale path is tried before the bind, and the bind
\* succeeds only on a path that is absent; after the bind the path is the
\* server's and its mode is 0666 before any connection is accepted; after
\* the server ends, by any path, the socket path exists only if the last
\* removal of it failed.
PathRemovedUnlessUnlinkFails ==
    /\ [](/\ srv = "bind" /\ uds_path.exists =>
                /\ uds_path.owner = "stale"
                /\ lastUnlink = "failed"
          /\ srv \in {"listen", "accept", "acceptFailed"} =>
                /\ uds_path.exists
                /\ uds_path.owner = "server"
          /\ srv \in {"accept", "acceptFailed"} => uds_path.mode = "0666"
          /\ srv \in {"start", "mkdir", "bind", "listen"} =>
                \A c \in Conns : conns[c].pc = "free"
          /\ ServerEnded /\ uds_path.exists => lastUnlink = "failed"
          /\ ServerEnded /\ lastUnlink = "ok" => ~uds_path.exists)
    /\ [][\A c \in Conns :
            conns[c].pc = "free" /\ conns'[c].pc # "free" =>
                /\ uds_path.owner = "server"
                /\ uds_path.mode = "0666"]_vars

\* the server has served a client and ended, the last removal of its path
\* succeeded and the path is gone
ServedAndPathGone ==
    /\ srv = "exited"
    /\ ~uds_path.exists
    /\ lastUnlink = "ok"
    /\ conns[1].pc = "done"

\* C18: connections do not block each other: while handlers are in a
\* backoff or in a request, the accept loop accepts the next connection,
\* and every handler that has not ended can take its next step whatever the
\* others do; an error of accept does not end the accept loop.
ConnectionsDoNotBlock ==
    /\ [](/\ srv \in {"accept", "acceptFailed"}
          /\ srv = "accept" /\ (\E c \in Conns : conns[c].pc = "free") =>
                ENABLED (\E c \in Conns : UdsAccept(c))
          /\ srv = "acceptFailed" => ENABLED AcceptResume
          /\ \A c \in Conns : Running(c) => ENABLED HandleClient(c))
    /\ [][srv' # srv =>
            \/ srv = "accept" /\ srv' = "acceptFailed" /\ conns' = conns
            \/ srv = "acceptFailed" /\ srv' = "accept" /\ conns' = conns]_vars

\* the second connection was accepted and served in ten attempts while the
\* handler of the first one was in its first backoff
SecondServedDuringBackoff ==
    /\ srv = "accept"
    /\ conns[1].pc = "backoff"
    /\ conns[1].requests = 1
    /\ conns[2].pc = "done"
    /\ conns[2].requests = 10
    /\ conns[2].response # NoAnswer

\* the variant a configured name stands for: the name in lower case if it
\* is one of the seven, static otherwise
VariantNamed(name) ==
    CASE name \in {"static", "stable", "spike", "wave", "degrading",
                   "faulty", "chaos"} -> name
      [] name = "Stable" -> "stable"
      [] name = "WAVE" -> "wave"
      [] OTHER -> "static"

\* C19: with a per-device list L, device i of 1..n has the variant named by
\* L[(i - 1) mod |L|], the list repeating when it is shorter than n; with
\* no list every device has the one configured variant; every device has
\* an instance of its own; a name that is none of the seven, compared
\* without case, gives the static variant and no error.
ProfilesAssignedCyclically ==
    /\ [](config.num_gpus > 0 =>
            /\ DOMAIN profiles = 1..config.num_gpus
            /\ \A i \in 1..config.num_gpus :
                  LET L == config.gpu_profiles
                  IN  profiles[i].name =
                          IF L # << >>
                          THEN VariantNamed(L[((i - 1) % Len(L)) + 1])
                          ELSE VariantNamed(config.metric_profile))
    /\ [][\A i, j \in DOMAIN profiles :
            i # j /\ profiles'[i] # profiles[i] =>
                profiles'[j] = profiles[j]]_vars

\* three devices and a list of two names: device 3 has the first name again,
\* device 2 the second one, written in upper case, and has applied it
ListRepeatsForThirdDevice ==
    /\ config.num_gpus = 3
    /\ config.gpu_profiles = <<"degrading", "WAVE">>
    /\ profiles[1].name = "degrading"
    /\ profiles[2].name = "wave"
    /\ profiles[3].name = "degrading"
    /\ sample.gpu = 2
    /\ sample.profile = "wave"
    /\ profiles[2].iteration > 0

\* the field ids in the order of the catalog
CatalogOrder == <<150, 155, 203, 204, 100, 101, 250, 251, 252>>

\* the samples of a parsed report, as a set
SampleSet(gpu_metrics) ==
    UNION {{<<gpu_metrics[k].gpu, gpu_metrics[k].fields[i].id,
              gpu_metrics[k].fields[i].value>> :
                i \in 1..Len(gpu_metrics[k].fields)} :
           k \in 1..Len(gpu_metrics)}

\* every report of the model with the set of its samples and the document
\* rendered from it
Rendered ==
    {[info |-> i, samples |-> SampleSet(parse_dcgmi_output(o)),
      doc |-> Render(parse_dcgmi_output(o), i)] :
        i \in GpuInfos, o \in Reports}

\* the document depends on the set of samples only, not on the order of
\* the rows of the report
RenderIgnoresReportOrder ==
    \A a, b \in Rendered :
        a.info = b.info /\ a.samples = b.samples => a.doc = b.doc

\* C20: the document of a successful render is the header block in catalog
\* order (150, 155, 203, 204, 100, 101, 250, 251, 252), a HELP and a TYPE
\* line for each, followed by the data lines in ascending lexicographic
\* order of their text, every line ended by one newline, so that the
\* document ends with exactly one trailing newline; the same set of samples
\* gives the same document whatever the order of the report.
DocumentInCanonicalOrder ==
    /\ RenderIgnoresReportOrder
    /\ lastCall.outcome = "ok" =>
          /\ Len(tickDoc) >= 2 * Len(CatalogOrder)
          /\ \A k \in 1..Len(CatalogOrder) :
                /\ tickDoc[2 * k - 1] =
                      HelpLine(FieldName(CatalogOrder[k]),
                               FieldHelp(CatalogOrder[k]))
                /\ tickDoc[2 * k] = TypeLine(FieldName(CatalogOrder[k]))
          /\ \A i \in DOMAIN tickDoc :
                i > 2 * Len(CatalogOrder) => tickDoc[i].kind = "DATA"
          /\ \A i, j \in DOMAIN tickDoc :
                2 * Len(CatalogOrder) < i /\ i < j =>
                    \/ NameRank(tickDoc[i].name) < NameRank(tickDoc[j].name)
                    \/ /\ tickDoc[i].name = tickDoc[j].name
                       /\ GpuRank(tickDoc[i].gpu) < GpuRank(tickDoc[j].gpu)
          /\ tickDoc[Len(tickDoc)].kind \in {"TYPE", "DATA"}

\* a document with the samples of two devices: the lines of one metric name
\* are together, device 1 before device 2, the name FB_FREE first
TwoDevicesInterleaved ==
    /\ lastCall.outcome = "ok"
    /\ Len(tickDoc) = 2 * Len(CatalogOrder) + 18
    /\ tickDoc[19].name = "DCGM_FI_DEV_FB_FREE"
    /\ tickDoc[19].gpu = 1
    /\ tickDoc[20].name = "DCGM_FI_DEV_FB_FREE"
    /\ tickDoc[20].gpu = 2
    /\ tickDoc[21].name = "DCGM_FI_DEV_FB_TOTAL"
    /\ tickDoc[36].name = "DCGM_FI_DEV_SM_CLOCK"

\* the rows of the last parsed report that are rows of device g
RowsOf(g) ==
    {k \in 1..Len(rawReport) :
        rawReport[k].head = "GPU" /\ rawReport[k].id = g}

\* the samples of device g in the dict the parser returned
ParsedOf(g) ==
    UNION {{<<parsed[k].fields[i].id, parsed[k].fields[i].value>> :
              i \in 1..Len(parsed[k].fields)} :
           k \in {j \in 1..Len(parsed) : parsed[j].gpu = g}}

\* the data lines collect_metrics makes for device g from that dict
EmittedFor(g) ==
    LET lines == DataLines(parsed, [d \in 1..MaxGpu |-> Descriptor(d)], 1)
    IN  {<<lines[i].name, lines[i].value>> :
            i \in {j \in 1..Len(lines) : lines[j].gpu = g}}

\* C21: when a value in the row of a device is N/A or not a number, exactly
\* the field of that column is left out for that device: every other field
\* of the row is emitted with its own value under its own field id, no
\* value moves to a neighbouring field, and the rows of the other devices
\* give what they give alone.
OnlyUnparsableFieldOmitted ==
    \A g \in 1..MaxGpu :
        \A k \in RowsOf(g) :
            RowsOf(g) = {k} =>
                LET vals == rawReport[k].vals
                    good == {i \in 1..Len(vals) : vals[i].kind = "num"}
                IN  /\ ParsedOf(g) =
                          {<<CatalogOrder[i], vals[i].val>> : i \in good}
                    /\ EmittedFor(g) =
                          {<<FieldName(CatalogOrder[i]), vals[i].val>> :
                              i \in good}

\* device 1 has N/A in the fifth column and device 2 a full row: eight
\* fields for device 1, none of them SM clock, nine for device 2
FifthFieldOmitted ==
    /\ Len(rawReport) = 2
    /\ rawReport[1].id = 1
    /\ rawReport[1].vals = [i \in 1..9 |-> IF i = 5 THEN NA ELSE Num(10 * i + 1)]
    /\ rawReport[2].id = 2
    /\ Cardinality(ParsedOf(1)) = 8
    /\ <<101, 61>> \in ParsedOf(1)
    /\ \A v \in 0..100 : <<100, v>> \notin ParsedOf(1)
    /\ Cardinality(ParsedOf(2)) = 9

\* C22: when dcgmi is absent at startup, the only step of the exporter is
\* its exit (sys.exit(1)), taken before the refresh thread is started and
\* before the listener is opened: that process never runs a tick and never
\* serves a request.
MissingToolIsFatal ==
    /\ [](~dcgmi_present =>
            /\ mainPc \in {"boot", "exited"}
            /\ pcR = "off"
            /\ metrics_lock = "free"
            /\ h = NoRequest
            /\ lastCall.outcome = "none"
            /\ tickDoc = EmptyDoc
            /\ metrics_cache = EmptyDoc)
    /\ [][~dcgmi_present /\ mainPc = "boot" => mainPc' = "exited"]_vars
    /\ [][mainPc = "exited" => mainPc' = "exited"]_vars

\* the exporter has found no dcgmi and has exited
ExitedWithoutTool ==
    /\ ~dcgmi_present
    /\ mainPc = "exited"
    /\ pcR = "off"

\* C23: a faulty profile makes its entry check only in a call of apply that
\* begins in Normal; when it enters a fault the countdown is drawn from
\* 3..10; a call that begins in Faulting takes one from the countdown and
\* never draws it again, resets it or extends it.
FaultEntryOnlyWhileNormal ==
    [][\A i \in DOMAIN profiles :
          (profiles[i].name = "faulty" /\ profiles'[i] # profiles[i]) =>
              /\ profiles'[i].iteration = profiles[i].iteration + 1
              /\ profiles[i].is_faulting =>
                    /\ profiles'[i].fault_countdown =
                          profiles[i].fault_countdown - 1
                    /\ profiles'[i].is_faulting =
                          (profiles'[i].fault_countdown > 0)
                    /\ faultLog'[i].drawn = faultLog[i].drawn
              /\ ~profiles[i].is_faulting =>
                    \/ /\ ~profiles'[i].is_faulting
                       /\ profiles'[i].fault_countdown =
                             profiles[i].fault_countdown
                       /\ faultLog'[i] = faultLog[i]
                    \/ /\ faultLog'[i].drawn \in 3..10
                       /\ profiles'[i].fault_countdown =
                             faultLog'[i].drawn - 1
                       /\ profiles'[i].is_faulting]_vars

\* a fault of countdown 10 two calls after its entry: the second call began
\* in Faulting and took one from the countdown
FaultCountingDown ==
    \E i \in DOMAIN profiles :
        /\ profiles[i].name = "faulty"
        /\ profiles[i].is_faulting
        /\ faultLog[i].drawn = 10
        /\ faultLog[i].further = 1
        /\ profiles[i].fault_countdown = 8

\* C24: the cache lock excludes a tick and the readers from each other:
\* from the start of a tick until the tick has stored its document no
\* reader copies the cache; a reader that arrives during a tick takes the
\* lock, and then its copy, only after the tick has stored and released;
\* the one refresh thread runs at most one tick at a time.
TickExcludesReaders ==
    /\ [](/\ (metrics_lock = "refresh") <=> (pcR = "collect")
          /\ (metrics_lock = "handler") <=> (h.pc = "locked")
          /\ ~(pcR = "collect" /\ h.pc = "locked")
          /\ (pcR = "collect" /\ h.pc = "handle" /\ GetMetrics) =>
                ~ENABLED DoGetMetricsAcquire)
    /\ [][h'.pc = "locked" /\ h.pc # "locked" =>
            /\ metrics_lock = "free"
            /\ pcR # "collect"
            /\ pcR' = pcR]_vars
    /\ [][h.pc = "locked" /\ h'.pc # "locked" =>
            /\ h'.response = metrics_cache
            /\ metrics_cache = tickDoc
            /\ pcR # "collect"
            /\ pcR' = pcR]_vars
    /\ [][pcR' = "collect" /\ pcR # "collect" =>
            /\ metrics_lock = "free"
            /\ h.pc # "locked"]_vars

\* a GET /metrics has arrived while a tick holds the lock, and waits
ReaderWaitsForTick ==
    /\ pcR = "collect"
    /\ metrics_lock = "refresh"
    /\ h.pc = "handle"
    /\ GetMetrics
    /\ lastCall.outcome = "ok"

\* C25: every accepted request has an execution unit of its own: while a
\* GET /metrics waits for the cache lock that a tick in progress holds, a
\* GET /health can be taken up and answered.
HealthServedWhileMetricsBlocked ==
    (h.pc = "handle" /\ GetMetrics /\ metrics_lock = "refresh") =>
        ENABLED Accept("GET", "/health")

\* the profiles that count their calls of apply in self.iteration
CountsCalls(i) ==
    profiles[i].name \in {"spike", "wave", "degrading", "faulty"}

\* C26: the profile state of a device is owned by that device alone and is
\* evaluated once per injection tick: a profile object changes only in the
\* evaluation for its own device, and between two ticks the profiles of all
\* devices the engine reports have been applied the same number of times,
\* for every set of device ids the engine reports and also when a tick
\* fails part-way through the device list.
ProfileOwnedAndAppliedOncePerTick ==
    /\ [][\A i \in DOMAIN profiles :
            profiles'[i] # profiles[i] => sample'.gpu = i]_vars
    /\ [](ipos = 0 =>
            \A g1, g2 \in FakeSet(gpu_ids) :
                (CountsCalls(ProfileIndex(g1)) /\ CountsCalls(ProfileIndex(g2)))
                    => profiles[ProfileIndex(g1)].iteration =
                          profiles[ProfileIndex(g2)].iteration)

\* the five fields the two states of the faulty profile are compared in
StateFields == {"gpu_util", "mem_util", "power", "sm_clock", "mem_clock"}

\* what FaultyProfile.apply returns for device g in Normal, at a level
NormalOf(g, level) ==
    FaultyApply(NewProfile("faulty", 0), g, Draw(level, FALSE, 0, 1)).metrics

\* what it returns in Faulting, at a level and a choice of the power
FaultingOf(g, level, choice) ==
    FaultyApply([NewProfile("faulty", 0) EXCEPT !.is_faulting = TRUE,
                                                !.fault_countdown = 5],
                g, Draw(level, FALSE, 0, choice)).metrics

\* the values field f of device g can have in Normal: every term of apply
\* grows with its random.randint
NormalValues(g, f) == NormalOf(g, 0)[f]..NormalOf(g, DrawSteps)[f]

\* the values field f of device g can have in Faulting
FaultingValues(g, f) ==
    IF f = "power"
    THEN {FaultingOf(g, 0, k)[f] : k \in 1..Len(ErraticPower)}
    ELSE FaultingOf(g, 0, 1)[f]..FaultingOf(g, DrawSteps, 1)[f]

\* the sample injected last has, in field f, a value that its device can
\* have in the other state as well
InBothStates(f) ==
    IF sample.faulting
    THEN sample[f] \in NormalValues(sample.gpu, f)
    ELSE sample[f] \in FaultingValues(sample.gpu, f)

\* C27 as stated: for every device id 1..16 no value of GPU utilization,
\* memory utilization, power, SM clock or memory clock that Faulting can
\* produce can be produced in Normal for the same device.
FaultyStatesDisjoint ==
    sample.profile = "faulty" => \A f \in StateFields : ~InBothStates(f)

\* C27: for every device id 1..16 the values of GPU utilization, memory
\* utilization, SM clock and memory clock of the two states are disjoint;
\* the power values are disjoint for the ids 1..8, 11 and 12, while 300 W
\* can be produced in both states for the ids 9 and 10 and 350 W for the
\* ids 13..16.
FaultyStatesDisjointButPower ==
    sample.profile = "faulty" =>
        /\ \A f \in StateFields \ {"power"} : ~InBothStates(f)
        /\ InBothStates("power") =>
              \/ sample.gpu \in {9, 10} /\ sample.power = 300
              \/ sample.gpu \in 13..16 /\ sample.power = 350
        /\ (sample.faulting /\ sample.gpu \in {9, 10} /\ sample.power = 300)
              => InBothStates("power")
        /\ (sample.faulting /\ sample.gpu \in 13..16 /\ sample.power = 350)
              => InBothStates("power")

\* device 10 is faulting with 300 W, a power it can have in Normal
FaultingPowerOfNormal ==
    /\ sample.profile = "faulty"
    /\ sample.gpu = 10
    /\ sample.faulting
    /\ sample.power = 300
    /\ sample.power \in NormalValues(10, "power")
    /\ sample.gpu_util \notin NormalValues(10, "gpu_util")

\* C28 as stated: the clocks are clamped like the other fields: for all 7
\* variants, every device id and every tick the SM clock is within
\* 800..1800 and the memory clock within 600..1000.
ClocksWithinChaosDomain ==
    sample.gpu >= 1 =>
        /\ sample.sm_clock \in 800..1800
        /\ sample.mem_clock \in 600..1000

\* C28: temperature, power, the utilizations and used framebuffer are
\* clamped; the clocks are not.  In every variant but Faulty, and in Faulty
\* while Normal, the SM clock is within 800..1800 and the memory clock
\* within 600..1000 all the same; a Faulty profile that is Faulting
\* produces an SM clock of 600..1000 and a memory clock of 400..600, below
\* these domains.
ClocksWithinDomainUnlessFaulting ==
    sample.gpu >= 1 =>
        /\ InClampIntervals(sample)
        /\ sample.profile \in PROFILES
        /\ ~(sample.profile = "faulty" /\ sample.faulting) =>
              /\ sample.sm_clock \in 800..1800
              /\ sample.mem_clock \in 600..1000
        /\ (sample.profile = "faulty" /\ sample.faulting) =>
              /\ sample.sm_clock \in 600..1000
              /\ sample.mem_clock \in 400..600

\* a faulting device with an SM clock of 600 MHz and a memory clock of 400
ThrottledBelowDomain ==
    /\ sample.profile = "faulty"
    /\ sample.faulting
    /\ sample.sm_clock = 600
    /\ sample.mem_clock = 400

\* the metrics of a degrading sample lie around the parts without jitter
AroundBase(s, base) ==
    /\ s.temp - TruncDiv(base.temp, 200) \in -3..3
    /\ s.power - TruncDiv(base.power, 200) \in -10..10
    /\ s.gpu_util - TruncDiv(base.gpu_util, 200) \in -5..5
    /\ s.mem_util - TruncDiv(base.mem_util, 200) \in -5..5
    /\ s.sm_clock - base.sm_clock \in -50..50
    /\ s.mem_clock - base.mem_clock \in -20..20

\* C29: the degradation factor of the Degrading profile at tick t is
\* min(t/200, 0.5): it does not decrease from tick t - 1 to tick t, never
\* exceeds 0.5 and is 0.5 for every t >= 100; from one tick to the next the
\* jitter-free part of temperature and power never decreases and the
\* jitter-free part of the utilizations and the clocks never increases; the
\* sample of the tick lies within the jitter of these parts.
DegradationRampsToHalf ==
    \A i \in DOMAIN profiles :
        (profiles[i].name = "degrading" /\ profiles[i].iteration >= 1) =>
            LET t == profiles[i].iteration
                factor == DegradationFactor(t)
                now == DegradingBase(factor)
                before == DegradingBase(DegradationFactor(t - 1))
            IN  /\ factor = (IF t <= 100 THEN t ELSE 100)
                /\ DegradationFactor(t - 1) <= factor
                /\ factor <= 100
                /\ t >= 100 => factor = 100
                /\ before.temp <= now.temp
                /\ before.power <= now.power
                /\ before.gpu_util >= now.gpu_util
                /\ before.mem_util >= now.mem_util
                /\ before.sm_clock >= now.sm_clock
                /\ before.mem_clock >= now.mem_clock
                /\ (sample.profile = "degrading"
                    /\ ProfileIndex(sample.gpu) = i) => AroundBase(sample, now)

\* a degrading profile past its hundredth tick, the device at 65 +/- 3
\* degrees and an SM clock of 1250 +/- 50
HalfDegraded ==
    \E i \in DOMAIN profiles :
        /\ profiles[i].name = "degrading"
        /\ profiles[i].iteration > 100
        /\ sample.profile = "degrading"
        /\ ProfileIndex(sample.gpu) = i
        /\ sample.temp \in 62..68
        /\ sample.sm_clock \in 1200..1300

\* every draw a call of apply could be given
AnyDraws ==
    {Draw(l, c, n, k) : l \in Levels, c \in BOOLEAN, n \in Levels,
                        k \in 1..Len(ErraticPower)}

\* what device gpu_id is given at tick t by a wave profile with the offset
\* of p, under the draw d
WaveSampleAt(p, t, gpu_id, d) ==
    WaveApply([p EXCEPT !.iteration = t - 1], gpu_id, d).metrics

\* the sample is the one of the wave profile i at its tick
WaveSampled(i) ==
    /\ profiles[i].name = "wave"
    /\ profiles[i].iteration >= 1
    /\ sample.profile = "wave"
    /\ ProfileIndex(sample.gpu) = i

\* the sample of the wave profile i is what (tick, offset, device) give
\* under every draw, and what they gave 60 ticks before
WaveSampleFixed(i) ==
    LET p == profiles[i]
        t == p.iteration
    IN  /\ \A d \in AnyDraws :
              sample = Injected(sample.gpu, p,
                                WaveSampleAt(p, t, sample.gpu, d))
        /\ t > 60 =>
              sample = Injected(sample.gpu, p,
                                WaveSampleAt(p, t - 60, sample.gpu,
                                             Draw(0, FALSE, 0, 1)))

\* a call of apply leaves the offset of a wave profile as it was
OffsetKept ==
    \A i \in DOMAIN profiles :
        profiles[i].name = "wave" =>
            profiles'[i].time_offset = profiles[i].time_offset

\* C30: the Wave profile is deterministic after construction: the phase
\* offset drawn at construction never changes, apply draws no randomness, so
\* the sample at a tick is a function of (tick, offset, device id) only, and
\* the sample at tick t + 60 equals the sample at tick t.
WaveDeterministicPeriodSixty ==
    /\ [](\A i \in DOMAIN profiles : WaveSampled(i) => WaveSampleFixed(i))
    /\ [][OffsetKept]_vars

\* a wave profile in its second period, off the centre of the wave
WaveSecondPeriod ==
    \E i \in DOMAIN profiles :
        /\ WaveSampled(i)
        /\ profiles[i].iteration > 60
        /\ profiles[i].time_offset = 15
        /\ sample.sm_clock # 1400

\* every data line of the document carries the labels the descriptor cache
\* has for its device ('Unknown' for a device the cache does not have)
LabelsFromCache(doc) ==
    \A k \in 1..Len(doc) :
        doc[k].kind = "DATA" => doc[k].info = InfoOf(gpu_info_cache, doc[k].gpu)

\* once __main__ has filled the descriptor cache no step changes it
DescriptorsKept ==
    mainPc # "boot" => gpu_info_cache' = gpu_info_cache

\* C31: the device descriptor cache is written once at startup and never
\* afterwards: no tick and no request modifies it, so in every document
\* rendered (the cached one, the one of the last tick, the one a request
\* copied or sent) a device id has the model, unique id and bus address
\* labels of that one cache.
DescriptorCacheWrittenOnce ==
    /\ [](/\ mainPc = "boot" => gpu_info_cache = << >>
          /\ LabelsFromCache(metrics_cache)
          /\ LabelsFromCache(tickDoc)
          /\ LabelsFromCache(h.response)
          /\ h.path = "/metrics" => LabelsFromCache(h.body))
    /\ [][DescriptorsKept]_vars

\* a second tick has stored a document with a line for device 2 while a
\* request holds a document of an earlier tick with a line for device 2
TwoDocumentsOfDeviceTwo ==
    /\ lastCall.before = "ok"
    /\ lastCall.outcome = "ok"
    /\ h.pc = "copied"
    /\ ~h.fresh
    /\ h.response # metrics_cache
    /\ \E k \in 1..Len(metrics_cache) :
          metrics_cache[k].kind = "DATA" /\ metrics_cache[k].gpu = 2
          /\ metrics_cache[k].info = Descriptor(2)
    /\ \E k \in 1..Len(h.response) :
          h.response[k].kind = "DATA" /\ h.response[k].gpu = 2

\* the request is a GET /metrics that has read the cache
MetricsRead ==
    /\ h.method = "GET"
    /\ h.path = "/metrics"
    /\ h.pc \in {"copied", "done"}

\* a GET /metrics reads the cache: before the first store it reads the empty
\* string, after it a document that is not empty
ReadsWhatIsStored ==
    (h.pc = "locked" /\ h'.pc = "copied") =>
        /\ h'.response = metrics_cache
        /\ (lastCall.outcome = "none") = (h'.response = EmptyDoc)

\* C32: until the first refresh tick has stored its result the cache holds
\* the empty string, so a GET /metrics served before that moment returns
\* status 200 with an empty body (no header block); after the first tick
\* has stored a document the cache is never empty again.
EmptyUntilFirstTick ==
    /\ []((lastCall.outcome = "none") = (metrics_cache = EmptyDoc))
    /\ []((MetricsRead /\ lastCall.outcome = "none") =>
             /\ h.response = EmptyDoc
             /\ h.pc = "done" => (h.status = 200 /\ h.body = EmptyDoc))
    /\ []((MetricsRead /\ h.pc = "done") =>
             (h.status = 200 /\ h.body = h.response))
    /\ [][ReadsWhatIsStored]_vars

\* a GET /metrics answered 200 with an empty body before any tick has stored
EmptyBodyServed ==
    /\ MetricsRead
    /\ h.pc = "done"
    /\ h.status = 200
    /\ h.body = EmptyDoc
    /\ lastCall.outcome = "none"
    /\ pcR = "collect"

\* a call of apply on a faulty profile that is Faulting takes one off the
\* countdown
CountdownFalls ==
    \A i \in DOMAIN profiles :
        (/\ profiles[i].name = "faulty"
         /\ profiles[i].is_faulting
         /\ profiles'[i].iteration = profiles[i].iteration + 1) =>
            profiles'[i].fault_countdown = profiles[i].fault_countdown - 1

FramebufferAddsUp ==
    sample.gpu >= 1 =>
        /\ sample.profile \in PROFILES
        /\ sample.fb_total = 16384
        /\ sample.fb_used + sample.fb_free = sample.fb_total
        /\ sample.fb_used \in 2048..14336
        /\ sample.fb_free \in 2048..14336

\* a chaos sample at the upper end of its draw: 14336 used, 2048 free
ChaosFramebufferFull ==
    /\ sample.profile = "chaos"
    /\ sample.fb_used = 14336
    /\ sample.fb_free = 2048

\* C35 as stated: in the success response written to a local-socket client
\* the Content-Length header equals the number of body bytes written after
\* the blank line, for every document body, bodies with characters that
\* encode to more than one byte included.
ContentLengthCountsBytes ==
    http_response # NoFrame =>
        http_response.content_length = Len(http_response.body)

\* a GET /metrics that has not read the cache yet
ReaderWaiting ==
    /\ h.pc = "handle"
    /\ h.method = "GET"
    /\ h.path = "/metrics"

\* C36: every GET /metrics request eventually receives a response:
\* provided each tick terminates and lock acquisition is fair, a reader
\* that waits for the cache lock, also while the refresh loop holds it, is
\* answered 200 with the document it copied while it held the lock.
EveryReaderAnswered ==
    /\ [](h.pc = "locked" => metrics_lock = "handler")
    /\ ReaderWaiting ~>
          (h.pc = "done" /\ h.path = "/metrics" /\ h.status = 200
           /\ h.body = h.response)

\* a reader holds the lock between two ticks while the refresh thread
\* waits for it
RefreshWaitsForReader ==
    /\ metrics_lock = "handler"
    /\ h.pc = "locked"
    /\ pcR = "acquire"
    /\ lastCall.outcome # "none"

\* start() has returned False after it launched the host engine
FailedAfterLaunch == returned = "False" /\ hostengine # "none"

\* C37 as stated: whenever start() returns False after it has launched the
\* host engine (the engine died, the wait of 15 polls timed out, or the
\* creation of the fake devices failed), no host engine launched by it is
\* left running and no PID file naming it remains; the metric updater is
\* started only after the engine was ready and the devices were created.
FailedStartCleansUp ==
    /\ FailedAfterLaunch => (hostengine # "running" /\ pid_file # "engine")
    /\ updater_thread => (startPc = "returned" /\ returned = "True")

=============================================================================
